---- MODULE Spec2Model ----
(***************************************************************************)
(* State-machine model of the construction_escrow program (lib.rs).        *)
(*                                                                         *)
(* One escrow account, its vault, the global config and the token          *)
(* balances of the parties.  Every instruction handler is a pure operator  *)
(* translated from its Rust body; the actions commit its result the way    *)
(* the host does: an Err return commits nothing.  Under Spec each          *)
(* instruction is one step.  Under SpecReentrant a handler that issues     *)
(* outbound transfers runs as begin / one step per transfer / finish, so   *)
(* that the guard flag is visible while a transfer is in progress and a    *)
(* second handler can be called on the escrow in the meantime.             *)
(***************************************************************************)
EXTENDS Integers, Sequences, FiniteSets, TLC

VARIABLES cfg, escrow, bal, now, call, saved_escrow, saved_bal

vars == <<cfg, escrow, bal, now, call, saved_escrow, saved_bal>>

(* ------------------------------ Constants ------------------------------ *)

MAX_ORACLES == 8
MAX_MILESTONES == 10
QUORUM_MIN == 1
BPS_DENOMINATOR == 10000
SECONDS_PER_DAY == 24 * 60 * 60

\* EscrowState discriminants; 0 is the zeroed, not yet created account.
Uninitialized == 0
Open == 1
Verified == 2
PartiallyReleased == 3
Released == 4
Refunded == 5
Dispute == 6

EscrowStates == {Open, Verified, PartiallyReleased, Released, Refunded, Dispute}

DisputeOutcome == {"Refund", "Release", "Split"}

(* ------------------------------- Bounds -------------------------------- *)

\* Largest value of the unsigned word the amounts live in (u64 in the
\* program; the model keeps the saturating arithmetic at a narrower width).
WordMax == 1073741823
\* The clock runs from day 1 to day MaxDay.
MaxDay == 2
\* Most milestones the model adds to the ledger.
MaxLedger == 2

(* ------------------------------ Identities ----------------------------- *)

\* Pubkey::default()
DefaultKey == "default"
BuyerKey == "buyer"
SellerKey == "seller"
TreasuryKey == "treasury"
InsuranceKey == "insurance"
ArbiterKey == "arbiter"
AuthorityKey == "authority"
Outsider == "mallory"
OracleKeys == {"o1", "o2"}

\* Identities that sign instructions.
Callers == {BuyerKey, SellerKey, Outsider}

\* Token accounts, named by their owner; "vault" is the escrow's vault ATA.
VaultAta == "vault"
TokenAccounts == {VaultAta, BuyerKey, SellerKey, TreasuryKey, InsuranceKey, Outsider}

\* Funds the buyer's token account holds before the escrow is created.
BuyerFunds == 100

(* ------------------------------ Arithmetic ----------------------------- *)

Min(a, b) == IF a <= b THEN a ELSE b

\* u64::saturating_mul
saturating_mul(a, b) ==
    IF a = 0 \/ b = 0 THEN 0
    ELSE IF a > WordMax \div b THEN WordMax
    ELSE a * b

\* u64::saturating_sub
saturating_sub(a, b) == IF a >= b THEN a - b ELSE 0

\* u64::saturating_add
saturating_add(a, b) == IF a > WordMax - b THEN WordMax ELSE a + b

\* mul_bps rounding up instead of down (what C13 rules out).
mul_bps_RoundUp(amount, bps) ==
    (saturating_mul(amount, bps) + (BPS_DENOMINATOR - 1)) \div BPS_DENOMINATOR

mul_bps(amount, bps) == saturating_mul(amount, bps) \div BPS_DENOMINATOR

calc_fee_splits(amount, fee_bps, insurance_bps) ==
    [fee_cut |-> mul_bps(amount, fee_bps), insurance_cut |-> mul_bps(amount, insurance_bps)]

calc_retention(total, retention_bps) == mul_bps(total, retention_bps)

(* ------------------------------ State & Types -------------------------- *)

\* The escrow account as `init` leaves it before create_escrow fills it in:
\* every field zero.  oracles and milestones hold the used prefix of the
\* fixed arrays, so oracles_len and milestones_len are their lengths.
\* Fields no handler ever reads back (released_ts, in_progress, a
\* milestone's verify_ts and evidence hash, the bumps, the NFT and evidence
\* fields) are left out.
ZeroedEscrow ==
    [project_id |-> 0, buyer |-> DefaultKey, seller |-> DefaultKey,
     amount |-> 0, fee_bps |-> 0, insurance_bps |-> 0, retention_bps |-> 0,
     late_penalty_bps |-> 0,
     quorum_m |-> 0, oracles |-> <<>>,
     state |-> Uninitialized, created_ts |-> 0, verified_ts |-> 0,
     verify_by_ts |-> 0, deliver_by_ts |-> 0, warranty_end_ts |-> 0,
     milestones |-> <<>>,
     cancel_requested_by |-> DefaultKey, dispute_open |-> FALSE,
     in_transfer |-> FALSE, retention_released |-> FALSE,
     last_ix_nonce |-> 0]

oracles_len(e) == Len(e.oracles)

milestones_len(e) == Len(e.milestones)

\* Milestone ids are 0-based in the program, sequences 1-based here.
MilestoneAt(e, milestone_id) == e.milestones[milestone_id + 1]

RECURSIVE SumAmounts(_)
SumAmounts(ms) == IF ms = <<>> THEN 0 ELSE Head(ms).amount + SumAmounts(Tail(ms))

\* The handlers' results: an error kind ("Ok" for success) and the escrow
\* as the handler's body leaves it in memory at the return.
Return(err, e) == [err |-> err, e |-> e]

\* The host writes an account back only when the handler returned Ok.
Committed(r, old) == IF r.err = "Ok" THEN r.e ELSE old

(* ------------------------------ Helpers/Utils -------------------------- *)

enter_transfer(e) ==
    IF e.in_transfer THEN Return("Reentrancy", e)
    ELSE Return("Ok", [e EXCEPT !.in_transfer = TRUE])

\* A release that leaves the guard as it found it (what C9 rules out).
exit_transfer_Skipped(e) == e

exit_transfer(e) == [e EXCEPT !.in_transfer = FALSE]

\* One remaining account: does it sign, and is its key a non-default key
\* among the first oracles_len slots of the oracle array?
OracleVote(e, ai) ==
    /\ ai.is_signer
    /\ \E i \in 1..oracles_len(e) : e.oracles[i] # DefaultKey /\ e.oracles[i] = ai.key

RECURSIVE count_quorum_votes(_, _)
count_quorum_votes(e, remaining) ==
    IF remaining = <<>> THEN 0
    ELSE (IF OracleVote(e, Head(remaining)) THEN 1 ELSE 0)
         + count_quorum_votes(e, Tail(remaining))

\* `(votes as u8) >= e.quorum_m`
QuorumMet(e, remaining) == (count_quorum_votes(e, remaining) % 256) >= e.quorum_m

(* ----------------------------- Config handlers ------------------------- *)

init_config(fee_bps, insurance_bps, retention_bps, warranty_days, quorum_m) ==
    [authority |-> AuthorityKey, pending_authority |-> DefaultKey,
     treasury |-> TreasuryKey, insurance_treasury |-> InsuranceKey,
     fee_bps |-> fee_bps, insurance_bps |-> insurance_bps,
     retention_bps |-> retention_bps, warranty_days |-> warranty_days,
     quorum_m |-> quorum_m, arbiter |-> ArbiterKey]

update_fee_splits(c, fee_bps, insurance_bps) ==
    [c EXCEPT !.fee_bps = fee_bps, !.insurance_bps = insurance_bps]

\* What a config handler returns: the error kind and the config as its body
\* leaves it.
ConfigReturn(err, c) == [err |-> err, c |-> c]

\* ConfigAuthority: `has_one = authority`, the authority signing.
transfer_market_authority_propose(c, authority, new_auth) ==
    IF ~(c.authority = authority) THEN ConfigReturn("ConstraintHasOne", c)
    ELSE ConfigReturn("Ok", [c EXCEPT !.pending_authority = new_auth])

\* transfer_market_authority_accept that leaves the proposal in place (what
\* C24 rules out).
transfer_market_authority_accept_KeepsPending(c, new_authority) ==
    IF ~(c.pending_authority = new_authority) THEN ConfigReturn("BadAuthorityAccept", c)
    ELSE ConfigReturn("Ok", [c EXCEPT !.authority = c.pending_authority])

\* AcceptAuthority: new_authority signs; no other constraint.
transfer_market_authority_accept(c, new_authority) ==
    IF ~(c.pending_authority = new_authority) THEN ConfigReturn("BadAuthorityAccept", c)
    ELSE ConfigReturn("Ok", [c EXCEPT !.authority = c.pending_authority,
                                      !.pending_authority = DefaultKey])

(* ------------------------------ Create escrow -------------------------- *)

\* create_escrow that copies no fee, insurance or retention rate from the
\* config (what C23 rules out).
create_escrow_NoSnapshot(e, c, buyer, seller, t, project_id, amount, ix_nonce, oracles, quorum_m) ==
    IF ~(amount > 0) THEN Return("ZeroAmount", e)
    ELSE IF ~(quorum_m >= QUORUM_MIN) THEN Return("BadQuorum", e)
    ELSE IF ~(Len(oracles) <= MAX_ORACLES) THEN Return("TooManyOracles", e)
    ELSE IF ~(ix_nonce > e.last_ix_nonce) THEN Return("BadNonce", e)
    ELSE Return("Ok",
        [e EXCEPT !.last_ix_nonce = ix_nonce,
                  !.project_id = project_id,
                  !.buyer = buyer,
                  !.seller = seller,
                  !.amount = amount,
                  !.quorum_m = quorum_m,
                  !.oracles = oracles,
                  !.state = Open,
                  !.created_ts = t,
                  !.warranty_end_ts = t + c.warranty_days * SECONDS_PER_DAY])

\* create_escrow that accepts any nonce (what C31 rules out).
create_escrow_AnyNonce(e, c, buyer, seller, t, project_id, amount, ix_nonce, oracles, quorum_m) ==
    IF ~(amount > 0) THEN Return("ZeroAmount", e)
    ELSE IF ~(quorum_m >= QUORUM_MIN) THEN Return("BadQuorum", e)
    ELSE IF ~(Len(oracles) <= MAX_ORACLES) THEN Return("TooManyOracles", e)
    ELSE Return("Ok",
        [e EXCEPT !.last_ix_nonce = ix_nonce,
                  !.project_id = project_id,
                  !.buyer = buyer,
                  !.seller = seller,
                  !.fee_bps = c.fee_bps,
                  !.insurance_bps = c.insurance_bps,
                  !.retention_bps = c.retention_bps,
                  !.amount = amount,
                  !.quorum_m = quorum_m,
                  !.oracles = oracles,
                  !.state = Open,
                  !.created_ts = t,
                  !.warranty_end_ts = t + c.warranty_days * SECONDS_PER_DAY])

\* The checks and the field initialisation of create_escrow; the pull of
\* `amount` from the buyer into the vault is the action's transfer.
create_escrow(e, c, buyer, seller, t, project_id, amount, ix_nonce, oracles, quorum_m) ==
    IF ~(amount > 0) THEN Return("ZeroAmount", e)
    ELSE IF ~(quorum_m >= QUORUM_MIN) THEN Return("BadQuorum", e)
    ELSE IF ~(Len(oracles) <= MAX_ORACLES) THEN Return("TooManyOracles", e)
    ELSE IF ~(ix_nonce > e.last_ix_nonce) THEN Return("BadNonce", e)
    ELSE Return("Ok",
        [e EXCEPT !.last_ix_nonce = ix_nonce,
                  !.project_id = project_id,
                  !.buyer = buyer,
                  !.seller = seller,
                  !.fee_bps = c.fee_bps,
                  !.insurance_bps = c.insurance_bps,
                  !.retention_bps = c.retention_bps,
                  !.amount = amount,
                  !.quorum_m = quorum_m,
                  !.oracles = oracles,
                  !.state = Open,
                  !.created_ts = t,
                  !.verified_ts = 0,
                  !.warranty_end_ts = t + c.warranty_days * SECONDS_PER_DAY,
                  !.verify_by_ts = 0,
                  !.deliver_by_ts = 0,
                  !.in_transfer = FALSE,
                  !.retention_released = FALSE,
                  !.milestones = <<>>,
                  !.cancel_requested_by = DefaultKey,
                  !.dispute_open = FALSE])

(* -------------------------- Deadlines & liveness ----------------------- *)

set_deadlines(e, verify_by_ts, deliver_by_ts) ==
    IF ~(e.state = Open \/ e.state = PartiallyReleased) THEN Return("BadState", e)
    ELSE Return("Ok", [e EXCEPT !.verify_by_ts = verify_by_ts,
                                !.deliver_by_ts = deliver_by_ts])

(* ------------------------------ Verification --------------------------- *)

\* verify_delivery without the lifecycle-state requirement (what C22 rules
\* out).
verify_delivery_NoStateCheck(e, remaining, t, project_id) ==
    IF ~(e.project_id = project_id) THEN Return("ProjectMismatch", e)
    ELSE IF ~QuorumMet(e, remaining) THEN Return("QuorumNotMet", e)
    ELSE Return("Ok",
        [e EXCEPT !.state = IF e.state = Open THEN Verified ELSE e.state,
                  !.verified_ts = t])

verify_delivery(e, remaining, t, project_id) ==
    IF ~(e.project_id = project_id) THEN Return("ProjectMismatch", e)
    ELSE IF ~(e.state = Open \/ e.state = PartiallyReleased) THEN Return("BadState", e)
    ELSE IF ~QuorumMet(e, remaining) THEN Return("QuorumNotMet", e)
    ELSE Return("Ok",
        [e EXCEPT !.state = IF e.state = Open THEN Verified ELSE e.state,
                  !.verified_ts = t])

(* ------------------------------- Milestones ---------------------------- *)

\* add_milestone without the `sum <= e.amount` requirement (what C6 rules
\* out).
add_milestone_NoSumCheck(e, amount) ==
    IF ~(e.state = Open \/ e.state = Verified) THEN Return("BadState", e)
    ELSE IF ~(milestones_len(e) < MAX_MILESTONES) THEN Return("TooManyMilestones", e)
    ELSE Return("Ok",
        [e EXCEPT !.milestones = Append(e.milestones,
            [id |-> milestones_len(e), amount |-> amount,
             verified |-> FALSE, released |-> FALSE])])

\* add_milestone without the ledger limit (what C27 rules out).
add_milestone_NoLimit(e, amount) ==
    IF ~(e.state = Open \/ e.state = Verified) THEN Return("BadState", e)
    ELSE IF ~(saturating_add(SumAmounts(e.milestones), amount) <= e.amount)
         THEN Return("MilestoneOverTotal", e)
    ELSE Return("Ok",
        [e EXCEPT !.milestones = Append(e.milestones,
            [id |-> milestones_len(e), amount |-> amount,
             verified |-> FALSE, released |-> FALSE])])

add_milestone(e, amount) ==
    IF ~(e.state = Open \/ e.state = Verified) THEN Return("BadState", e)
    ELSE IF ~(milestones_len(e) < MAX_MILESTONES) THEN Return("TooManyMilestones", e)
    ELSE IF ~(saturating_add(SumAmounts(e.milestones), amount) <= e.amount)
         THEN Return("MilestoneOverTotal", e)
    ELSE Return("Ok",
        [e EXCEPT !.milestones = Append(e.milestones,
            [id |-> milestones_len(e), amount |-> amount,
             verified |-> FALSE, released |-> FALSE])])

\* verify_milestone that verifies a verified milestone again (what C26
\* rules out).
verify_milestone_NoVerifiedCheck(e, remaining, t, milestone_id) ==
    IF ~(milestone_id < milestones_len(e)) THEN Return("BadMilestoneId", e)
    ELSE IF ~QuorumMet(e, remaining) THEN Return("QuorumNotMet", e)
    ELSE Return("Ok",
        [e EXCEPT !.milestones[milestone_id + 1].verified = TRUE,
                  !.state = IF e.state = Open THEN Verified ELSE e.state])

verify_milestone(e, remaining, t, milestone_id) ==
    IF ~(milestone_id < milestones_len(e)) THEN Return("BadMilestoneId", e)
    ELSE IF ~QuorumMet(e, remaining) THEN Return("QuorumNotMet", e)
    ELSE IF MilestoneAt(e, milestone_id).verified THEN Return("AlreadyVerified", e)
    ELSE Return("Ok",
        [e EXCEPT !.milestones[milestone_id + 1].verified = TRUE,
                  !.state = IF e.state = Open THEN Verified ELSE e.state])

(* --------------------------- Cancel / dispute -------------------------- *)

request_cancel(e, caller) ==
    IF ~(e.cancel_requested_by = DefaultKey) THEN Return("CancelAlreadyRequested", e)
    ELSE IF ~(caller = e.buyer \/ caller = e.seller) THEN Return("Unauthorized", e)
    ELSE Return("Ok", [e EXCEPT !.cancel_requested_by = caller])

open_dispute(e) ==
    IF e.dispute_open THEN Return("DisputeAlreadyOpen", e)
    ELSE Return("Ok", [e EXCEPT !.dispute_open = TRUE, !.state = Dispute])

(* -------------------------- Authority management ----------------------- *)

\* update_oracles without its two requirements (what C25 rules out).
update_oracles_NoChecks(e, new_oracles, new_quorum_m) ==
    Return("Ok", [e EXCEPT !.oracles = new_oracles, !.quorum_m = new_quorum_m])

update_oracles(e, new_oracles, new_quorum_m) ==
    IF ~(Len(new_oracles) <= MAX_ORACLES) THEN Return("TooManyOracles", e)
    ELSE IF ~(new_quorum_m >= QUORUM_MIN) THEN Return("BadQuorum", e)
    ELSE Return("Ok", [e EXCEPT !.oracles = new_oracles, !.quorum_m = new_quorum_m])

(* -------------------------- Outbound transfers ------------------------- *)

\* A transfer the handler issues: destination token account and amount.
Leg(to, amount) == [to |-> to, amount |-> amount]

\* `if x > 0 { transfer_from_vault(..) }`: zero legs are not issued.
IssuedLegs(legs) == SelectSeq(legs, LAMBDA l : l.amount > 0)

\* What a transfer-issuing handler returns from the part of its body that
\* precedes the first transfer: the error kind, the escrow in memory, the
\* transfers it goes on to issue, in order, and the locals its tail reads.
Plan(err, e, legs, id, ts, seller_amt) ==
    [err |-> err, e |-> e, legs |-> legs, id |-> id, ts |-> ts, seller_amt |-> seller_amt]

PlanErr(err, e) == Plan(err, e, <<>>, 0, 0, 0)

\* token::transfer out of the vault: fails when the vault holds too little.
CanTransfer(b, leg) == b[VaultAta] >= leg.amount

transfer_from_vault(b, leg) ==
    IF leg.to = VaultAta THEN b
    ELSE [b EXCEPT ![VaultAta] = @ - leg.amount, ![leg.to] = @ + leg.amount]

(* -------------------------- Expire and refund -------------------------- *)

expire_and_refund(e, vault_amount, t, ctx) ==
    IF ~(e.verify_by_ts > 0 /\ t > e.verify_by_ts) THEN PlanErr("NotExpired", e)
    ELSE IF ~(e.state = Open) THEN PlanErr("BadState", e)
    ELSE IF ~(vault_amount >= e.amount) THEN PlanErr("VaultBalanceLow", e)
    ELSE Plan("Ok", e, <<Leg(ctx.buyer_ata, vault_amount)>>, 0, t, 0)

expire_and_refund_tail(e, c) ==
    [e EXCEPT !.state = Refunded]

(* --------------------------- Milestone release ------------------------- *)

\* Fee, insurance and late-penalty breakdown shared by release_for_milestone
\* and release_payment (the penalty only when `late`).
Payout(e, gross, late) ==
    LET s == calc_fee_splits(gross, e.fee_bps, e.insurance_bps)
        before_penalty == saturating_sub(gross, s.fee_cut + s.insurance_cut)
        penalty == IF late THEN mul_bps(before_penalty, e.late_penalty_bps) ELSE 0
    IN  [fee_cut |-> s.fee_cut, insurance_cut |-> s.insurance_cut,
         penalty |-> penalty,
         seller_amount |-> saturating_sub(before_penalty, penalty)]

\* The payout transfers with the seller paid first (what C30 rules out).
PayoutLegs_SellerFirst(p, ctx) ==
    IssuedLegs(<<Leg(ctx.seller_ata, p.seller_amount),
                 Leg(ctx.buyer_ata, p.penalty),
                 Leg(ctx.treasury_ata, p.fee_cut),
                 Leg(ctx.insurance_ata, p.insurance_cut)>>)

\* penalty -> buyer, fee -> treasury, insurance -> insurance treasury,
\* remainder -> seller, each to the token account the caller passed.
PayoutLegs(p, ctx) ==
    IssuedLegs(<<Leg(ctx.buyer_ata, p.penalty),
                 Leg(ctx.treasury_ata, p.fee_cut),
                 Leg(ctx.insurance_ata, p.insurance_cut),
                 Leg(ctx.seller_ata, p.seller_amount)>>)

IsLate(e, t) == e.deliver_by_ts > 0 /\ t > e.deliver_by_ts

\* release_for_milestone requiring `m.verified` alone (what C7 rules out).
release_for_milestone_NoReleasedCheck(e, vault_amount, t, ctx, milestone_id) ==
    IF ~(milestone_id < milestones_len(e)) THEN PlanErr("BadMilestoneId", e)
    ELSE IF ~MilestoneAt(e, milestone_id).verified
         THEN PlanErr("MilestoneNotReleasable", e)
    ELSE LET payout == MilestoneAt(e, milestone_id).amount
             g == enter_transfer(e)
         IN  IF g.err # "Ok" THEN PlanErr(g.err, g.e)
             ELSE IF ~(vault_amount >= payout) THEN PlanErr("VaultBalanceLow", g.e)
             ELSE LET p == Payout(g.e, payout, IsLate(g.e, t))
                  IN  Plan("Ok", g.e, PayoutLegs(p, ctx), milestone_id, t, p.seller_amount)

release_for_milestone(e, vault_amount, t, ctx, milestone_id) ==
    IF ~(milestone_id < milestones_len(e)) THEN PlanErr("BadMilestoneId", e)
    ELSE IF ~(MilestoneAt(e, milestone_id).verified /\ ~MilestoneAt(e, milestone_id).released)
         THEN PlanErr("MilestoneNotReleasable", e)
    ELSE LET payout == MilestoneAt(e, milestone_id).amount
             g == enter_transfer(e)
         IN  IF g.err # "Ok" THEN PlanErr(g.err, g.e)
             ELSE IF ~(vault_amount >= payout) THEN PlanErr("VaultBalanceLow", g.e)
             ELSE LET p == Payout(g.e, payout, IsLate(g.e, t))
                  IN  Plan("Ok", g.e, PayoutLegs(p, ctx), milestone_id, t, p.seller_amount)

release_for_milestone_tail(e, c) ==
    exit_transfer([e EXCEPT !.milestones[c.id + 1].released = TRUE,
                            !.state = PartiallyReleased])

(* ------------------------------ Full release --------------------------- *)

release_payment(e, vault_amount, t, ctx) ==
    IF ~(e.state = Verified \/ e.state = PartiallyReleased) THEN PlanErr("BadState", e)
    ELSE LET retention_due == calc_retention(e.amount, e.retention_bps)
             remaining == IF ~e.retention_released
                          THEN saturating_sub(vault_amount, Min(retention_due, vault_amount))
                          ELSE vault_amount
         IN  IF ~(remaining > 0) THEN PlanErr("NothingToRelease", e)
             ELSE LET g == enter_transfer(e)
                  IN  IF g.err # "Ok" THEN PlanErr(g.err, g.e)
                      ELSE LET p == Payout(g.e, remaining, IsLate(g.e, t))
                           IN  Plan("Ok", g.e, PayoutLegs(p, ctx), 0, t, p.seller_amount)

release_payment_tail(e, c) ==
    exit_transfer([e EXCEPT !.state = Released])

(* ----------------------------- Retention release ----------------------- *)

\* release_retention without the warranty requirement (what C8 rules out).
release_retention_NoWarrantyCheck(e, vault_amount, t, ctx) ==
    IF e.retention_released THEN PlanErr("RetentionAlreadyReleased", e)
    ELSE LET retention == calc_retention(e.amount, e.retention_bps)
         IN  IF ~(vault_amount >= retention) THEN PlanErr("VaultBalanceLow", e)
             ELSE LET g == enter_transfer(e)
                  IN  IF g.err # "Ok" THEN PlanErr(g.err, g.e)
                      ELSE LET p == Payout(g.e, retention, FALSE)
                           IN  Plan("Ok", g.e, PayoutLegs(p, ctx), 0, t, p.seller_amount)

release_retention(e, vault_amount, t, ctx) ==
    IF e.retention_released THEN PlanErr("RetentionAlreadyReleased", e)
    ELSE IF ~(t >= e.warranty_end_ts) THEN PlanErr("WarrantyNotEnded", e)
    ELSE LET retention == calc_retention(e.amount, e.retention_bps)
         IN  IF ~(vault_amount >= retention) THEN PlanErr("VaultBalanceLow", e)
             ELSE LET g == enter_transfer(e)
                  IN  IF g.err # "Ok" THEN PlanErr(g.err, g.e)
                      ELSE LET p == Payout(g.e, retention, FALSE)
                           IN  Plan("Ok", g.e, PayoutLegs(p, ctx), 0, t, p.seller_amount)

release_retention_tail(e, c) ==
    exit_transfer([e EXCEPT !.retention_released = TRUE])

(* ------------------------------ Approve cancel ------------------------- *)

approve_cancel(e, vault_amount, t, ctx, caller) ==
    IF ~(e.cancel_requested_by # DefaultKey) THEN PlanErr("CancelNotRequested", e)
    ELSE IF ~(caller # e.cancel_requested_by) THEN PlanErr("Unauthorized", e)
    ELSE IF ~(vault_amount > 0) THEN PlanErr("NothingToRelease", e)
    ELSE Plan("Ok", e, <<Leg(ctx.buyer_ata, vault_amount)>>, 0, t, 0)

approve_cancel_tail(e, c) == [e EXCEPT !.state = Refunded]

(* ------------------------------ Resolve dispute ------------------------ *)

\* resolve_dispute charging fee and insurance on the whole balance (what
\* C11 rules out).
resolve_dispute_FeeOnTotal(e, conf, vault_amount, t, ctx, arbiter, outcome, seller_pct_bps) ==
    IF ~(conf.arbiter = arbiter) THEN PlanErr("ConstraintHasOne", e)
    ELSE IF ~e.dispute_open THEN PlanErr("NoOpenDispute", e)
    ELSE LET g == enter_transfer(e)
         IN  IF g.err # "Ok" THEN PlanErr(g.err, g.e)
             ELSE IF ~(vault_amount > 0) THEN PlanErr("NothingToRelease", g.e)
             ELSE LET seller_amt == CASE outcome = "Refund" -> 0
                                      [] outcome = "Release" -> vault_amount
                                      [] outcome = "Split" -> mul_bps(vault_amount, seller_pct_bps)
                      buyer_amt == CASE outcome = "Refund" -> vault_amount
                                     [] outcome = "Release" -> 0
                                     [] outcome = "Split" -> saturating_sub(vault_amount, seller_amt)
                      s == IF seller_amt > 0
                           THEN calc_fee_splits(vault_amount, g.e.fee_bps, g.e.insurance_bps)
                           ELSE [fee_cut |-> 0, insurance_cut |-> 0]
                      seller_net == saturating_sub(seller_amt, s.fee_cut + s.insurance_cut)
                  IN  Plan("Ok", g.e,
                           IssuedLegs(<<Leg(ctx.buyer_ata, buyer_amt),
                                        Leg(ctx.seller_ata, seller_net),
                                        Leg(ctx.treasury_ata, s.fee_cut),
                                        Leg(ctx.insurance_ata, s.insurance_cut)>>),
                           0, t, seller_amt)

\* resolve_dispute without the open-dispute requirement (what C12 rules
\* out).
resolve_dispute_NoDisputeCheck(e, conf, vault_amount, t, ctx, arbiter, outcome, seller_pct_bps) ==
    IF ~(conf.arbiter = arbiter) THEN PlanErr("ConstraintHasOne", e)
    ELSE LET g == enter_transfer(e)
         IN  IF g.err # "Ok" THEN PlanErr(g.err, g.e)
             ELSE IF ~(vault_amount > 0) THEN PlanErr("NothingToRelease", g.e)
             ELSE LET seller_amt == CASE outcome = "Refund" -> 0
                                      [] outcome = "Release" -> vault_amount
                                      [] outcome = "Split" -> mul_bps(vault_amount, seller_pct_bps)
                      buyer_amt == CASE outcome = "Refund" -> vault_amount
                                     [] outcome = "Release" -> 0
                                     [] outcome = "Split" -> saturating_sub(vault_amount, seller_amt)
                      s == IF seller_amt > 0
                           THEN calc_fee_splits(seller_amt, g.e.fee_bps, g.e.insurance_bps)
                           ELSE [fee_cut |-> 0, insurance_cut |-> 0]
                      seller_net == saturating_sub(seller_amt, s.fee_cut + s.insurance_cut)
                  IN  Plan("Ok", g.e,
                           IssuedLegs(<<Leg(ctx.buyer_ata, buyer_amt),
                                        Leg(ctx.seller_ata, seller_net),
                                        Leg(ctx.treasury_ata, s.fee_cut),
                                        Leg(ctx.insurance_ata, s.insurance_cut)>>),
                           0, t, seller_amt)

\* `has_one = arbiter` of ArbiterResolve is checked before the body runs.
resolve_dispute(e, conf, vault_amount, t, ctx, arbiter, outcome, seller_pct_bps) ==
    IF ~(conf.arbiter = arbiter) THEN PlanErr("ConstraintHasOne", e)
    ELSE IF ~e.dispute_open THEN PlanErr("NoOpenDispute", e)
    ELSE LET g == enter_transfer(e)
         IN  IF g.err # "Ok" THEN PlanErr(g.err, g.e)
             ELSE IF ~(vault_amount > 0) THEN PlanErr("NothingToRelease", g.e)
             ELSE LET seller_amt == CASE outcome = "Refund" -> 0
                                      [] outcome = "Release" -> vault_amount
                                      [] outcome = "Split" -> mul_bps(vault_amount, seller_pct_bps)
                      buyer_amt == CASE outcome = "Refund" -> vault_amount
                                     [] outcome = "Release" -> 0
                                     [] outcome = "Split" -> saturating_sub(vault_amount, seller_amt)
                      s == IF seller_amt > 0
                           THEN calc_fee_splits(seller_amt, g.e.fee_bps, g.e.insurance_bps)
                           ELSE [fee_cut |-> 0, insurance_cut |-> 0]
                      seller_net == saturating_sub(seller_amt, s.fee_cut + s.insurance_cut)
                  IN  Plan("Ok", g.e,
                           IssuedLegs(<<Leg(ctx.buyer_ata, buyer_amt),
                                        Leg(ctx.seller_ata, seller_net),
                                        Leg(ctx.treasury_ata, s.fee_cut),
                                        Leg(ctx.insurance_ata, s.insurance_cut)>>),
                           0, t, seller_amt)

resolve_dispute_tail(e, c) ==
    exit_transfer([e EXCEPT !.dispute_open = FALSE,
                            !.state = IF c.seller_amt > 0 THEN Released ELSE Refunded])

\* The part of a transfer-issuing handler that follows its last transfer.
HandlerTail(op, e, c) ==
    CASE op = "expire_and_refund" -> expire_and_refund_tail(e, c)
      [] op = "release_for_milestone" -> release_for_milestone_tail(e, c)
      [] op = "release_payment" -> release_payment_tail(e, c)
      [] op = "release_retention" -> release_retention_tail(e, c)
      [] op = "approve_cancel" -> approve_cancel_tail(e, c)
      [] op = "resolve_dispute" -> resolve_dispute_tail(e, c)

(* ------------------------------- Inputs -------------------------------- *)

Day(n) == n * SECONDS_PER_DAY

\* (fee_bps, insurance_bps) pairs handed to init_config.  The handler does
\* not bound them, so a pair above 100% in total is accepted.
FeeSplitInputs == {<<1000, 500>>, <<6000, 6000>>}
RetentionBpsInput == 1000
WarrantyDaysInput == 1

ProjectId == 7
AmountInputs == {0, BuyerFunds}
NonceInputs == {0, 1}
QuorumInputs == {0, 2}
TooManyOracleKeys == <<"o1", "o2", "o1", "o2", "o1", "o2", "o1", "o2", "o1">>
OracleListInputs == {<<"o1", "o2">>, TooManyOracleKeys}
DeadlineInputs == {<<0, 0>>, <<Day(1), Day(1)>>}
MilestoneAmountInputs == {40, 70}
MilestoneIdInputs == 0..MaxLedger
DisputeInputs == {<<"Refund", 0>>, <<"Release", 0>>, <<"Split", 0>>, <<"Split", 5000>>}
ArbiterInputs == {ArbiterKey, Outsider}

\* Remaining accounts of a quorum-gated call.  The same account may be
\* listed more than once.
AccountInfo(key, is_signer) == [key |-> key, is_signer |-> is_signer]

RemainingInputs ==
    {<<>>,
     <<AccountInfo("o1", TRUE)>>,
     <<AccountInfo("o1", TRUE), AccountInfo("o2", TRUE)>>,
     <<AccountInfo("o1", TRUE), AccountInfo("o1", TRUE)>>,
     <<AccountInfo("o1", TRUE), AccountInfo("o2", FALSE)>>,
     <<AccountInfo("o1", TRUE), AccountInfo(Outsider, TRUE)>>}

\* Destination token accounts passed to a transfer-issuing handler: those
\* of the recorded parties.
RecordedCtx(e, conf) ==
    [seller_ata |-> e.seller, buyer_ata |-> e.buyer,
     treasury_ata |-> conf.treasury, insurance_ata |-> conf.insurance_treasury]

\* Destination token accounts as a caller may pass them.  RefundBuyer,
\* ReleaseCommon, ApproveCancel and ArbiterResolve put no constraint on
\* them, so the token accounts of any owner are accepted.
DivertedCtx ==
    [seller_ata |-> Outsider, buyer_ata |-> Outsider,
     treasury_ata |-> Outsider, insurance_ata |-> Outsider]

CtxInputs(e, conf) == {RecordedCtx(e, conf), DivertedCtx}

\* (new_oracles, new_quorum_m) handed to update_oracles.
NewOracleInputs == {<<<<"o1">>, 1>>, <<<<"o1">>, 0>>, <<TooManyOracleKeys, 1>>}

\* The transfer the token program refuses for reasons of its own (a frozen
\* or closed destination, a wrong mint): the n-th issued, 0 for none.
RefusedLegInputs == 0..4

(* ---------------------- Running a handler's transfers ------------------ *)

\* The transfers in order from the k-th on; the first that fails, for want
\* of funds or refused, ends the run.
RECURSIVE RunLegs(_, _, _, _)
RunLegs(b, legs, k, refused) ==
    IF legs = <<>> THEN [ok |-> TRUE, b |-> b]
    ELSE IF k = refused \/ ~CanTransfer(b, Head(legs)) THEN [ok |-> FALSE, b |-> b]
    ELSE RunLegs(transfer_from_vault(b, Head(legs)), Tail(legs), k + 1, refused)

\* The handler without the host's rollback: what the transfers that went
\* through before the failing one moved stays moved.
Run_KeepsEarlierLegs(op, r, e, b, refused) ==
    LET legs == RunLegs(b, r.legs, 1, refused)
    IN  IF r.err # "Ok" THEN [err |-> r.err, e |-> e, b |-> b]
        ELSE IF ~legs.ok THEN [err |-> "TransferFailed", e |-> e, b |-> legs.b]
        ELSE [err |-> "Ok", e |-> HandlerTail(op, r.e, r), b |-> legs.b]

\* A whole transfer-issuing handler: the part before the transfers, the
\* transfers, the tail.  Its result is the error kind, the escrow and the
\* balances; on any error these are the ones at entry.
Run(op, r, e, b, refused) ==
    LET legs == RunLegs(b, r.legs, 1, refused)
    IN  IF r.err # "Ok" THEN [err |-> r.err, e |-> e, b |-> b]
        ELSE IF ~legs.ok THEN [err |-> "TransferFailed", e |-> e, b |-> b]
        ELSE [err |-> "Ok", e |-> HandlerTail(op, r.e, r), b |-> legs.b]

(* -------------------------------- Init --------------------------------- *)

NoCall == [op |-> "none", legs |-> <<>>, id |-> 0, ts |-> 0, seller_amt |-> 0]

NoBalances == [a \in TokenAccounts |-> 0]

Idle == call.op = "none"

Created == escrow.state # Uninitialized

\* init_config has run; the escrow account is not created yet.
Init ==
    /\ \E fs \in FeeSplitInputs :
          cfg = init_config(fs[1], fs[2], RetentionBpsInput, WarrantyDaysInput, QUORUM_MIN)
    /\ escrow = ZeroedEscrow
    /\ bal = [NoBalances EXCEPT ![BuyerKey] = BuyerFunds]
    /\ now = Day(1)
    /\ call = NoCall
    /\ saved_escrow = ZeroedEscrow
    /\ saved_bal = NoBalances

(* ------------------------------- Actions ------------------------------- *)

\* Clock::get() moves on between instructions.  Only the time since the
\* escrow's creation matters, so the clock starts with it.
Tick ==
    /\ Idle
    /\ Created
    /\ now < Day(MaxDay)
    /\ now' = now + SECONDS_PER_DAY
    /\ UNCHANGED <<cfg, escrow, bal, call, saved_escrow, saved_bal>>

\* create_escrow on the freshly `init`ed account; its one transfer pulls
\* `amount` from the buyer's token account into the vault.
CreateEscrow ==
    /\ Idle
    /\ ~Created
    /\ \E amount \in AmountInputs, ix_nonce \in NonceInputs,
          oracles \in OracleListInputs, quorum_m \in QuorumInputs :
          LET r == create_escrow(escrow, cfg, BuyerKey, SellerKey, now, ProjectId,
                                 amount, ix_nonce, oracles, quorum_m)
              funded == bal[BuyerKey] >= amount
          IN  IF r.err = "Ok" /\ funded
              THEN /\ escrow' = r.e
                   /\ bal' = [bal EXCEPT ![BuyerKey] = @ - amount, ![VaultAta] = @ + amount]
              ELSE UNCHANGED <<escrow, bal>>
    /\ UNCHANGED <<cfg, now, call, saved_escrow, saved_bal>>

\* update_fee_splits, which `has_one = authority` of ConfigAuthority lets
\* only the config's authority call.  Escrows keep the split they copied
\* at creation.
UpdateFeeSplits ==
    /\ Idle
    /\ \E signer \in {AuthorityKey, Outsider}, fs \in FeeSplitInputs :
          cfg' = IF signer = cfg.authority
                 THEN update_fee_splits(cfg, fs[1], fs[2])
                 ELSE cfg
    /\ UNCHANGED <<escrow, bal, now, call, saved_escrow, saved_bal>>

\* A handler that issues no transfer.  An Err return leaves no trace.
Simple(op, r) ==
    /\ Idle
    /\ Created
    /\ escrow' = Committed(r, escrow)
    /\ UNCHANGED <<cfg, bal, now, call, saved_escrow, saved_bal>>

SetDeadlines ==
    \E d \in DeadlineInputs :
        Simple("set_deadlines", set_deadlines(escrow, d[1], d[2]))

VerifyDelivery ==
    \E remaining \in RemainingInputs, project_id \in {ProjectId, ProjectId + 1} :
        /\ project_id # ProjectId => remaining = <<>>
        /\ Simple("verify_delivery", verify_delivery(escrow, remaining, now, project_id))

AddMilestone ==
    /\ milestones_len(escrow) < MaxLedger
    /\ \E amount \in MilestoneAmountInputs :
          Simple("add_milestone", add_milestone(escrow, amount))

VerifyMilestone ==
    \E remaining \in RemainingInputs, milestone_id \in MilestoneIdInputs :
        Simple("verify_milestone", verify_milestone(escrow, remaining, now, milestone_id))

RequestCancel ==
    \E actor \in Callers : Simple("request_cancel", request_cancel(escrow, actor))

OpenDispute == Simple("open_dispute", open_dispute(escrow))

\* A handler that issues transfers, as one instruction.
Transferring(op, r, refused) ==
    /\ Idle
    /\ Created
    /\ LET out == Run(op, r, escrow, bal, refused)
       IN  /\ escrow' = out.e
           /\ bal' = out.b
    /\ UNCHANGED <<cfg, now, call, saved_escrow, saved_bal>>

ExpireAndRefund ==
    \E refused \in RefusedLegInputs :
        Transferring("expire_and_refund",
                     expire_and_refund(escrow, bal[VaultAta], now, RecordedCtx(escrow, cfg)),
                     refused)

ReleaseForMilestone ==
    \E milestone_id \in MilestoneIdInputs, refused \in RefusedLegInputs :
        Transferring("release_for_milestone",
                     release_for_milestone(escrow, bal[VaultAta], now,
                                           RecordedCtx(escrow, cfg), milestone_id),
                     refused)

ReleasePayment ==
    \E refused \in RefusedLegInputs :
        Transferring("release_payment",
                     release_payment(escrow, bal[VaultAta], now, RecordedCtx(escrow, cfg)),
                     refused)

ReleaseRetention ==
    \E refused \in RefusedLegInputs :
        Transferring("release_retention",
                     release_retention(escrow, bal[VaultAta], now, RecordedCtx(escrow, cfg)),
                     refused)

ApproveCancel ==
    \E actor \in Callers, refused \in RefusedLegInputs :
        Transferring("approve_cancel",
                     approve_cancel(escrow, bal[VaultAta], now, RecordedCtx(escrow, cfg), actor),
                     refused)

ResolveDispute ==
    \E arbiter \in ArbiterInputs, d \in DisputeInputs, refused \in RefusedLegInputs :
        Transferring("resolve_dispute",
                     resolve_dispute(escrow, cfg, bal[VaultAta], now,
                                     RecordedCtx(escrow, cfg), arbiter, d[1], d[2]),
                     refused)

Next ==
    \/ Tick
    \/ UpdateFeeSplits
    \/ CreateEscrow
    \/ SetDeadlines
    \/ VerifyDelivery
    \/ AddMilestone
    \/ VerifyMilestone
    \/ RequestCancel
    \/ OpenDispute
    \/ ExpireAndRefund
    \/ ReleaseForMilestone
    \/ ReleasePayment
    \/ ReleaseRetention
    \/ ApproveCancel
    \/ ResolveDispute

Spec == Init /\ [][Next]_vars

(* ------------------- Transfers as steps, nested calls ------------------ *)

\* A call of a transfer-issuing handler: its name and its arguments.
TransferCalls ==
    {<<"expire_and_refund", 0, 0, 0>>, <<"release_payment", 0, 0, 0>>,
     <<"release_retention", 0, 0, 0>>}
    \cup {<<"release_for_milestone", id, 0, 0>> : id \in MilestoneIdInputs}
    \cup {<<"approve_cancel", actor, 0, 0>> : actor \in Callers}
    \cup {<<"resolve_dispute", a, d[1], d[2]>> : a \in ArbiterInputs, d \in DisputeInputs}

\* The handler's body up to its first transfer, on escrow e and balances b
\* with the destination accounts ctx.
PlanWith(c, e, conf, b, t, ctx) ==
    CASE c[1] = "expire_and_refund" -> expire_and_refund(e, b[VaultAta], t, ctx)
      [] c[1] = "release_for_milestone" ->
            release_for_milestone(e, b[VaultAta], t, ctx, c[2])
      [] c[1] = "release_payment" -> release_payment(e, b[VaultAta], t, ctx)
      [] c[1] = "release_retention" -> release_retention(e, b[VaultAta], t, ctx)
      [] c[1] = "approve_cancel" -> approve_cancel(e, b[VaultAta], t, ctx, c[2])
      [] c[1] = "resolve_dispute" ->
            resolve_dispute(e, conf, b[VaultAta], t, ctx, c[2], c[3], c[4])

\* The same with the recorded parties' accounts.
PlanOf(c, e, conf, b, t) == PlanWith(c, e, conf, b, t, RecordedCtx(e, conf))

\* The handler runs up to its first transfer_from_vault: the escrow it
\* holds has the guard engaged if the handler engages it.  What the
\* instruction found is kept for the roll-back of a failure.
BeginCall ==
    /\ Idle
    /\ Created
    /\ \E c \in TransferCalls :
          LET r == PlanOf(c, escrow, cfg, bal, now)
          IN  /\ r.err = "Ok"
              /\ escrow' = r.e
              /\ call' = [op |-> c[1], legs |-> r.legs, id |-> r.id, ts |-> r.ts,
                          seller_amt |-> r.seller_amt]
    /\ saved_escrow' = escrow
    /\ saved_bal' = bal
    /\ UNCHANGED <<cfg, bal, now>>

\* The next transfer_from_vault of the handler in flight goes through.
TransferLeg ==
    /\ ~Idle
    /\ call.legs # <<>>
    /\ CanTransfer(bal, Head(call.legs))
    /\ bal' = transfer_from_vault(bal, Head(call.legs))
    /\ call' = [call EXCEPT !.legs = Tail(@)]
    /\ UNCHANGED <<cfg, escrow, now, saved_escrow, saved_bal>>

\* The next transfer fails (too little in the vault, or refused by the
\* token program): the instruction fails and nothing of it is kept.
TransferFails ==
    /\ ~Idle
    /\ call.legs # <<>>
    /\ escrow' = saved_escrow
    /\ bal' = saved_bal
    /\ call' = NoCall
    /\ saved_escrow' = ZeroedEscrow
    /\ saved_bal' = NoBalances
    /\ UNCHANGED <<cfg, now>>

\* After the last transfer the handler's tail runs and the instruction ends.
FinishCall ==
    /\ ~Idle
    /\ call.legs = <<>>
    /\ escrow' = HandlerTail(call.op, escrow, call)
    /\ call' = NoCall
    /\ saved_escrow' = ZeroedEscrow
    /\ saved_bal' = NoBalances
    /\ UNCHANGED <<cfg, bal, now>>

\* A second transfer-issuing handler is called on the same escrow while a
\* transfer of the first is in progress.  It reads the escrow as the first
\* holds it, guard included, and runs as a whole.
NestedRun(c, e, conf, b, t) == Run(c[1], PlanOf(c, e, conf, b, t), e, b, 0)

Reenter ==
    /\ ~Idle
    /\ call.legs # <<>>
    /\ \E c \in TransferCalls :
          LET out == NestedRun(c, escrow, cfg, bal, now)
          IN  /\ out.err = "Ok"
              /\ escrow' = out.e
              /\ bal' = out.b
    /\ UNCHANGED <<cfg, now, call, saved_escrow, saved_bal>>

NextReentrant ==
    \/ Tick
    \/ UpdateFeeSplits
    \/ CreateEscrow
    \/ SetDeadlines
    \/ VerifyDelivery
    \/ AddMilestone
    \/ VerifyMilestone
    \/ RequestCancel
    \/ OpenDispute
    \/ BeginCall
    \/ TransferLeg
    \/ TransferFails
    \/ FinishCall
    \/ Reenter

SpecReentrant == Init /\ [][NextReentrant]_vars

(* --------------------------- Config authority ------------------------- *)

\* The identities that sign config instructions, and the keys proposed.
ConfigSigners == {AuthorityKey, BuyerKey, Outsider}
NewAuthorityInputs == ConfigSigners \cup {DefaultKey}

\* A config handler; an Err return leaves the config as it was.
ConfigCall(r) ==
    /\ Idle
    /\ cfg' = IF r.err = "Ok" THEN r.c ELSE cfg
    /\ UNCHANGED <<escrow, bal, now, call, saved_escrow, saved_bal>>

ProposeAuthority ==
    \E signer \in ConfigSigners, new_auth \in NewAuthorityInputs :
        ConfigCall(transfer_market_authority_propose(cfg, signer, new_auth))

AcceptAuthority ==
    \E signer \in ConfigSigners :
        ConfigCall(transfer_market_authority_accept(cfg, signer))

NextConfig ==
    \/ ProposeAuthority
    \/ AcceptAuthority
    \/ UpdateFeeSplits
    \/ CreateEscrow
    \/ Tick
    \/ SetDeadlines
    \/ RequestCancel
    \/ OpenDispute

SpecConfig == Init /\ [][NextConfig]_vars

(* ------------------- Any caller, any destination accounts ------------- *)

\* update_oracles; BuyerOrSeller lets any signer be the actor.
UpdateOracles ==
    \E actor \in Callers, o \in NewOracleInputs :
        Simple("update_oracles", update_oracles(escrow, o[1], o[2]))

\* A transfer-issuing handler called with the destination accounts the
\* caller chooses, as one instruction.
CallWithAccounts ==
    \E c \in TransferCalls, ctx \in CtxInputs(escrow, cfg), refused \in {0, 1} :
        Transferring(c[1], PlanWith(c, escrow, cfg, bal, now, ctx), refused)

NextAnyCaller ==
    \/ Tick
    \/ CreateEscrow
    \/ SetDeadlines
    \/ VerifyDelivery
    \/ AddMilestone
    \/ VerifyMilestone
    \/ RequestCancel
    \/ OpenDispute
    \/ UpdateOracles
    \/ CallWithAccounts

SpecAnyCaller == Init /\ [][NextAnyCaller]_vars

(* ------------------------ The ledger up to its limit ------------------ *)

\* Milestone amounts small enough for MAX_MILESTONES entries within the
\* escrow's amount, and one that the sum check turns down late.
LedgerAmountInputs == {5, 60}

\* add_milestone with nothing but the code's own limits.
FillLedger ==
    \E amount \in LedgerAmountInputs :
        Simple("add_milestone", add_milestone(escrow, amount))

\* verify_milestone of the first entry.
VerifyFirstMilestone ==
    \E remaining \in RemainingInputs :
        Simple("verify_milestone", verify_milestone(escrow, remaining, now, 0))

NextLedger ==
    \/ CreateEscrow
    \/ FillLedger
    \/ VerifyFirstMilestone
    \/ ReleaseForMilestone
    \/ UpdateOracles
    \/ OpenDispute
    \/ ResolveDispute

SpecLedger == Init /\ [][NextLedger]_vars

(* --------------------- Payout arithmetic at all sizes ------------------ *)

\* Deposits from one token unit to the largest word, among them the example
\* amount of the payout scenarios and the first amount whose product with
\* 10000 basis points saturates.
PayoutAmounts ==
    {1, 3, 100, 1000000, WordMax \div BPS_DENOMINATOR + 1, WordMax}

\* (fee_bps, insurance_bps) handed to init_config.
PayoutFeeSplits == {<<250, 100>>, <<1000, 500>>, <<6000, 4000>>, <<6000, 6000>>}

\* seller_pct_bps of a Split.
SplitPctInputs == {0, 1, 3333, 5000, 9999, 10000}

\* init_config has run and the buyer holds the deposit-to-be.
PayoutInit ==
    /\ \E fs \in PayoutFeeSplits :
          cfg = init_config(fs[1], fs[2], RetentionBpsInput, WarrantyDaysInput, QUORUM_MIN)
    /\ escrow = ZeroedEscrow
    /\ \E funds \in PayoutAmounts : bal = [NoBalances EXCEPT ![BuyerKey] = funds]
    /\ now = Day(1)
    /\ call = NoCall
    /\ saved_escrow = ZeroedEscrow
    /\ saved_bal = NoBalances

\* create_escrow for all the buyer holds.
FundEscrow ==
    /\ Idle
    /\ ~Created
    /\ LET r == create_escrow(escrow, cfg, BuyerKey, SellerKey, now, ProjectId,
                              bal[BuyerKey], 1, <<"o1", "o2">>, 2)
       IN  /\ r.err = "Ok"
           /\ escrow' = r.e
           /\ bal' = [bal EXCEPT ![BuyerKey] = 0, ![VaultAta] = bal[BuyerKey]]
    /\ UNCHANGED <<cfg, now, call, saved_escrow, saved_bal>>

\* add_milestone for the whole deposit.
WholeMilestone ==
    /\ milestones_len(escrow) = 0
    /\ Simple("add_milestone", add_milestone(escrow, escrow.amount))

\* resolve_dispute by the arbiter with outcome Split.
ResolveSplit ==
    \E pct \in SplitPctInputs :
        Transferring("resolve_dispute",
                     resolve_dispute(escrow, cfg, bal[VaultAta], now,
                                     RecordedCtx(escrow, cfg), ArbiterKey, "Split", pct),
                     0)

NextPayout ==
    \/ Tick
    \/ FundEscrow
    \/ SetDeadlines
    \/ WholeMilestone
    \/ VerifyMilestone
    \/ OpenDispute
    \/ ReleaseForMilestone
    \/ ResolveSplit

SpecPayout == PayoutInit /\ [][NextPayout]_vars

(* =============================== Claims ================================ *)

Ctx == RecordedCtx(escrow, cfg)

MilestoneIds == 0..(milestones_len(escrow) - 1)

(* C1: Released and Refunded are terminal: once the lifecycle state is
   Released or Refunded no operation changes it again. *)
C1_TerminalStates ==
    [][escrow.state \in {Released, Refunded} => escrow'.state = escrow.state]_vars

(* C2: Dispute is entered only by open_dispute and only from Open or
   PartiallyReleased; open_dispute in Verified, Released, Refunded or
   Dispute fails and leaves the state unchanged. *)
C2_DisputeEntry ==
    /\ [](escrow.state \in {Verified, Released, Refunded, Dispute}
            => open_dispute(escrow).err # "Ok")
    /\ [][(escrow'.state = Dispute /\ escrow.state # Dispute)
            => (escrow.state \in {Open, PartiallyReleased}
                /\ escrow' = open_dispute(escrow).e)]_vars

\* The distinct registered oracles among the authenticated signers.
DistinctOracleSigners(e, remaining) ==
    ({e.oracles[i] : i \in 1..oracles_len(e)}
       \cap {remaining[j].key : j \in {k \in DOMAIN remaining : remaining[k].is_signer}})
    \ {DefaultKey}

(* C3: with threshold quorum_m = M, verify_delivery and verify_milestone
   succeed when M distinct registered oracles are among the signers and
   fail with QuorumNotMet when only M-1 distinct registered oracles are. *)
C3_QuorumThreshold ==
    Created =>
      \A remaining \in RemainingInputs :
        LET n == Cardinality(DistinctOracleSigners(escrow, remaining))
            d == verify_delivery(escrow, remaining, now, escrow.project_id)
        IN  /\ (escrow.state \in {Open, PartiallyReleased} /\ n = escrow.quorum_m)
                  => d.err = "Ok"
            /\ (escrow.state \in {Open, PartiallyReleased} /\ n = escrow.quorum_m - 1)
                  => (d.err = "QuorumNotMet" /\ Committed(d, escrow) = escrow)
            /\ \A id \in MilestoneIds :
                 LET m == verify_milestone(escrow, remaining, now, id)
                 IN  /\ (~MilestoneAt(escrow, id).verified /\ n = escrow.quorum_m)
                           => m.err = "Ok"
                     /\ (n = escrow.quorum_m - 1)
                           => (m.err = "QuorumNotMet" /\ Committed(m, escrow) = escrow)

(* C4: no double counting: an oracle identity listed several times among
   the signers contributes exactly one vote. *)
C4_NoDoubleCounting ==
    Created =>
      \A remaining \in RemainingInputs :
        count_quorum_votes(escrow, remaining)
          = Cardinality(DistinctOracleSigners(escrow, remaining))

\* What the recorded parties and the vault hold of the deposit.
Accounted ==
    bal[VaultAta] + (bal[BuyerKey] - (BuyerFunds - escrow.amount))
    + bal[escrow.seller] + bal[cfg.treasury] + bal[cfg.insurance_treasury]

(* C5: all value is accounted for: the vault plus what went to buyer,
   seller, treasury and insurance treasury is the deposit, and a successful
   release_for_milestone moves exactly the milestone's amount out of the
   vault, for every fee_bps and insurance_bps the program accepts. *)
C5_ValueAccounted ==
    Created =>
      /\ Accounted = escrow.amount
      /\ \A id \in MilestoneIds :
           LET out == Run("release_for_milestone",
                          release_for_milestone(escrow, bal[VaultAta], now, Ctx, id),
                          escrow, bal, 0)
           IN  out.err = "Ok"
                 => bal[VaultAta] - out.b[VaultAta] = MilestoneAt(escrow, id).amount

(* C6: the sum of the milestone amounts never exceeds escrow.amount, and an
   add_milestone that would push it above fails with MilestoneOverTotal,
   leaving the ledger as it was. *)
C6_MilestoneSum ==
    Created =>
      /\ SumAmounts(escrow.milestones) <= escrow.amount
      /\ \A amount \in MilestoneAmountInputs :
           LET r == add_milestone(escrow, amount)
           IN  (/\ escrow.state \in {Open, Verified}
                /\ milestones_len(escrow) < MAX_MILESTONES
                /\ SumAmounts(escrow.milestones) + amount > escrow.amount)
                 => (r.err = "MilestoneOverTotal"
                     /\ Committed(r, escrow).milestones = escrow.milestones)

C6_Witness ==
    /\ milestones_len(escrow) >= 1
    /\ \E amount \in MilestoneAmountInputs :
          /\ SumAmounts(escrow.milestones) + amount > escrow.amount
          /\ add_milestone(escrow, amount).err = "MilestoneOverTotal"

(* C7: a milestone is paid at most once: release_for_milestone on a released
   milestone fails with MilestoneNotReleasable and issues no transfer, and
   a released flag never returns to false. *)
C7_PaidOnce ==
    /\ [](\A id \in MilestoneIds :
            MilestoneAt(escrow, id).released =>
              \A refused \in RefusedLegInputs :
                LET r == release_for_milestone(escrow, bal[VaultAta], now, Ctx, id)
                    out == Run("release_for_milestone", r, escrow, bal, refused)
                IN  /\ r.err = "MilestoneNotReleasable"
                    /\ r.legs = <<>>
                    /\ out.b = bal)
    /\ [][\A id \in MilestoneIds :
            MilestoneAt(escrow, id).released
              => (id < milestones_len(escrow') /\ MilestoneAt(escrow', id).released)]_vars

C7_Witness ==
    \E id \in MilestoneIds :
        /\ MilestoneAt(escrow, id).released
        /\ bal[VaultAta] >= MilestoneAt(escrow, id).amount
        /\ release_for_milestone(escrow, bal[VaultAta], now, Ctx, id).err
             = "MilestoneNotReleasable"

\* release_retention in the current state, up to its first transfer, and as
\* a whole when the token program refuses nothing.
RetentionCall == release_retention(escrow, bal[VaultAta], now, Ctx)

RetentionRun == Run("release_retention", RetentionCall, escrow, bal, 0)

RetentionLegsTotal ==
    LET p == Payout(escrow, calc_retention(escrow.amount, escrow.retention_bps), FALSE)
    IN  p.fee_cut + p.insurance_cut + p.seller_amount

(* C8 as stated: release_retention fails with WarrantyNotEnded whenever
   now < warranty_end_ts; once now >= warranty_end_ts and retention is not
   yet released it succeeds; after it succeeded retention_released stays
   true and every later call fails with RetentionAlreadyReleased. *)
C8_AsStated ==
    /\ [](Created =>
            /\ (now < escrow.warranty_end_ts) => RetentionCall.err = "WarrantyNotEnded"
            /\ (now >= escrow.warranty_end_ts /\ ~escrow.retention_released)
                  => RetentionRun.err = "Ok"
            /\ escrow.retention_released => RetentionCall.err = "RetentionAlreadyReleased")
    /\ [][escrow.retention_released => escrow'.retention_released]_vars

(* C8 amended: release_retention fails with WarrantyNotEnded whenever
   now < warranty_end_ts; once now >= warranty_end_ts and retention is not
   yet released it fails with VaultBalanceLow when the vault holds less than
   the retention amount, and otherwise succeeds if the vault also covers the
   transfers it issues; after it succeeded retention_released stays true
   and every later call fails with RetentionAlreadyReleased. *)
C8_RetentionRelease ==
    /\ [](Created =>
            /\ (now < escrow.warranty_end_ts) => RetentionCall.err = "WarrantyNotEnded"
            /\ (/\ now >= escrow.warranty_end_ts
                /\ ~escrow.retention_released
                /\ bal[VaultAta] < calc_retention(escrow.amount, escrow.retention_bps))
                  => RetentionCall.err = "VaultBalanceLow"
            /\ (/\ now >= escrow.warranty_end_ts
                /\ ~escrow.retention_released
                /\ bal[VaultAta] >= calc_retention(escrow.amount, escrow.retention_bps)
                /\ bal[VaultAta] >= RetentionLegsTotal)
                  => (RetentionRun.err = "Ok" /\ RetentionRun.e.retention_released)
            /\ escrow.retention_released => RetentionCall.err = "RetentionAlreadyReleased")
    /\ [][escrow.retention_released => escrow'.retention_released]_vars

C8_Witness ==
    /\ escrow.retention_released
    /\ now >= escrow.warranty_end_ts
    /\ bal[escrow.seller] > 0
    /\ RetentionCall.err = "RetentionAlreadyReleased"

\* Every transfer-issuing handler on the current state, with every input.
AllRuns ==
    {Run("expire_and_refund", expire_and_refund(escrow, bal[VaultAta], now, Ctx),
         escrow, bal, f) : f \in RefusedLegInputs}
    \cup {Run("release_for_milestone",
              release_for_milestone(escrow, bal[VaultAta], now, Ctx, x[1]),
              escrow, bal, x[2]) : x \in MilestoneIdInputs \X RefusedLegInputs}
    \cup {Run("release_payment", release_payment(escrow, bal[VaultAta], now, Ctx),
              escrow, bal, f) : f \in RefusedLegInputs}
    \cup {Run("release_retention", release_retention(escrow, bal[VaultAta], now, Ctx),
              escrow, bal, f) : f \in RefusedLegInputs}
    \cup {Run("approve_cancel", approve_cancel(escrow, bal[VaultAta], now, Ctx, x[1]),
              escrow, bal, x[2]) : x \in Callers \X RefusedLegInputs}
    \cup {Run("resolve_dispute",
              resolve_dispute(escrow, cfg, bal[VaultAta], now, Ctx, x[1], x[2][1], x[2][2]),
              escrow, bal, x[3]) : x \in ArbiterInputs \X DisputeInputs \X RefusedLegInputs}

(* C9: no stuck guard: in_transfer is false before and after every
   operation, also one that fails after having engaged the guard. *)
C9_NoStuckGuard ==
    /\ ~escrow.in_transfer
    /\ Created => \A out \in AllRuns : ~out.e.in_transfer

\* resolve_dispute fails on the empty vault with the guard engaged in memory.
C9_Witness ==
    /\ Created
    /\ escrow.dispute_open
    /\ bal[VaultAta] = 0
    /\ LET r == resolve_dispute(escrow, cfg, bal[VaultAta], now, Ctx, ArbiterKey, "Release", 0)
       IN  r.err = "NothingToRelease" /\ r.e.in_transfer
    /\ ~escrow.in_transfer

\* A transfer of a guarded handler is in progress.
MidFlight == ~Idle /\ call.legs # <<>> /\ escrow.in_transfer

(* C10: reentrancy exclusion: while a transfer-issuing operation is
   mid-flight on an escrow (guard held, a transfer in progress) no second
   transfer-issuing operation on it starts: the nested call does not
   succeed, fails with Reentrancy where it would have run without the
   guard, and moves no funds. *)
C10_ReentrancyExclusion ==
    /\ [](MidFlight =>
            \A c \in TransferCalls :
              LET out == NestedRun(c, escrow, cfg, bal, now)
                  free == NestedRun(c, exit_transfer(escrow), cfg, bal, now)
              IN  /\ out.err # "Ok"
                  /\ out.b = bal
                  /\ free.err = "Ok" => out.err = "Reentrancy")
    /\ [][(MidFlight /\ call' = call) => (bal' = bal /\ escrow' = escrow)]_vars

\* floor(a * bps / 10000) in unbounded arithmetic, for bps <= 10000.
ExactBps(a, bps) ==
    (a \div BPS_DENOMINATOR) * bps + ((a % BPS_DENOMINATOR) * bps) \div BPS_DENOMINATOR

\* What a handler's transfers send to one token account.
RECURSIVE PaidTo(_, _)
PaidTo(legs, to) ==
    IF legs = <<>> THEN 0
    ELSE (IF Head(legs).to = to THEN Head(legs).amount ELSE 0) + PaidTo(Tail(legs), to)

\* The arbiter's Split of the current vault balance, up to its first
\* transfer and as a whole.
SplitCall(pct) ==
    resolve_dispute(escrow, cfg, bal[VaultAta], now, Ctx, ArbiterKey, "Split", pct)

SplitRun(pct) == Run("resolve_dispute", SplitCall(pct), escrow, bal, 0)

Disputed == Created /\ escrow.dispute_open /\ bal[VaultAta] > 0

\* floor(min(a * bps, WordMax) / 10000): the product capped at the word.
CappedBps(a, bps) ==
    IF bps > 0 /\ a > WordMax \div bps THEN WordMax \div BPS_DENOMINATOR
    ELSE ExactBps(a, bps)

\* A Split of the vault balance by pct with `gross` as the seller's gross
\* share: the amounts computed, and what a successful resolution moves.
SplitAsClaimed(pct, gross) ==
    LET total == bal[VaultAta]
        r == SplitCall(pct)
        out == SplitRun(pct)
        fee == PaidTo(r.legs, cfg.treasury)
        insurance == PaidTo(r.legs, cfg.insurance_treasury)
    IN  /\ r.err = "Ok"
        /\ r.seller_amt = gross
        /\ PaidTo(r.legs, escrow.buyer) = total - gross
        /\ PaidTo(r.legs, escrow.buyer) + gross = total
        /\ fee = ExactBps(gross, escrow.fee_bps)
        /\ insurance = ExactBps(gross, escrow.insurance_bps)
        /\ out.err = "Ok" =>
             /\ out.b[VaultAta] = 0
             /\ out.b[escrow.buyer] - bal[escrow.buyer] = total - gross
             /\ out.b[escrow.seller] - bal[escrow.seller] = gross - fee - insurance
             /\ out.b[cfg.treasury] - bal[cfg.treasury] = fee
             /\ out.b[cfg.insurance_treasury] - bal[cfg.insurance_treasury] = insurance

(* C11 as stated: for every vault balance total and every seller_pct_bps
   in [0,10000] a Split computes sellerGross = floor(total*pct/10000) and
   buyerAmt = total - sellerGross, fee and insurance on sellerGross only,
   and a successful resolution pays sellerNet = sellerGross - fee -
   insurance and empties the vault. *)
C11_AsStated ==
    Disputed => \A pct \in SplitPctInputs : SplitAsClaimed(pct, ExactBps(bal[VaultAta], pct))

(* C11 amended: for every vault balance total and every seller_pct_bps in
   [0,10000] a Split computes sellerGross = floor(min(total*pct, word
   maximum)/10000) and buyerAmt = total - sellerGross, so that
   buyerAmt + sellerGross = total, with fee and insurance computed on
   sellerGross only, and a successful resolution pays
   sellerNet = sellerGross - fee - insurance and transfers out exactly
   total (the vault ends at zero). *)
C11_DisputeSplit ==
    Disputed => \A pct \in SplitPctInputs : SplitAsClaimed(pct, CappedBps(bal[VaultAta], pct))

\* A dispute over a vault large enough for total * pct to saturate, which
\* the arbiter's even Split resolves.
C11_Witness ==
    /\ Disputed
    /\ bal[VaultAta] > WordMax \div 5000
    /\ SplitRun(5000).err = "Ok"
    /\ SplitCall(5000).seller_amt > 0
    /\ PaidTo(SplitCall(5000).legs, cfg.treasury) > 0

\* Outcomes the arbiter may hand to resolve_dispute.
OutcomeInputs == DisputeInputs \cup {<<"Split", pct>> : pct \in SplitPctInputs}

(* C12: resolve_dispute succeeds only when the caller is the configured
   arbiter, dispute_open is true and the vault balance is non-zero; on
   success it clears dispute_open and sets the state to Released if the
   seller's gross amount is > 0, otherwise to Refunded (so Refund, and a
   Split whose seller share floors to 0, end in Refunded). *)
C12_ResolveDispute ==
    Created =>
      \A arbiter \in ArbiterInputs, d \in OutcomeInputs :
        LET total == bal[VaultAta]
            r == resolve_dispute(escrow, cfg, total, now, Ctx, arbiter, d[1], d[2])
            out == Run("resolve_dispute", r, escrow, bal, 0)
            gross == CASE d[1] = "Refund" -> 0
                       [] d[1] = "Release" -> total
                       [] d[1] = "Split" -> CappedBps(total, d[2])
        IN  out.err = "Ok" =>
              /\ arbiter = cfg.arbiter
              /\ escrow.dispute_open
              /\ total > 0
              /\ ~out.e.dispute_open
              /\ out.e.state = IF gross > 0 THEN Released ELSE Refunded
              /\ (d[1] = "Refund" \/ (d[1] = "Split" /\ ExactBps(total, d[2]) = 0))
                   => out.e.state = Refunded

\* A dispute that the arbiter's Refund, its Split with a seller share
\* flooring to 0 and its Release resolve, and an outsider's call does not.
C12_Witness ==
    /\ Disputed
    /\ Run("resolve_dispute",
           resolve_dispute(escrow, cfg, bal[VaultAta], now, Ctx, ArbiterKey, "Split", 1),
           escrow, bal, 0).e.state = Refunded
    /\ ExactBps(bal[VaultAta], 1) = 0
    /\ Run("resolve_dispute",
           resolve_dispute(escrow, cfg, bal[VaultAta], now, Ctx, ArbiterKey, "Release", 0),
           escrow, bal, 0).e.state = Released
    /\ Run("resolve_dispute",
           resolve_dispute(escrow, cfg, bal[VaultAta], now, Ctx, Outsider, "Release", 0),
           escrow, bal, 0).err = "ConstraintHasOne"

\* Basis-point pairs that sum to at most 100%.
BpsPairs ==
    {<<0, 0>>, <<250, 100>>, <<1, 9999>>, <<3333, 6667>>, <<5000, 5000>>,
     <<10000, 0>>, <<0, 10000>>, <<9999, 1>>}

(* C13: fee math never exceeds principal: for all amount, feeBps,
   insuranceBps with feeBps + insuranceBps <= 10000,
   mul_bps(amount, feeBps) + mul_bps(amount, insuranceBps) <= amount, also
   for amounts large enough that amount * bps saturates at the word
   maximum. *)
C13_FeeWithinPrincipal ==
    \A p \in BpsPairs \cup {<<cfg.fee_bps, cfg.insurance_bps>>} :
      \A amount \in {escrow.amount, bal[VaultAta], bal[BuyerKey]}
                      \cup {MilestoneAt(escrow, id).amount : id \in MilestoneIds} :
        p[1] + p[2] <= BPS_DENOMINATOR =>
          LET s == calc_fee_splits(amount, p[1], p[2])
          IN  /\ mul_bps(amount, p[1]) + mul_bps(amount, p[2]) <= amount
              /\ s.fee_cut + s.insurance_cut <= amount

\* An escrow whose amount saturates the product with its fee split, which
\* sums to 100%.
C13_Witness ==
    /\ Created
    /\ escrow.fee_bps + escrow.insurance_bps = BPS_DENOMINATOR
    /\ escrow.amount > WordMax \div escrow.fee_bps
    /\ saturating_mul(escrow.amount, escrow.fee_bps) = WordMax
    /\ mul_bps(escrow.amount, escrow.fee_bps) > 0

\* release_for_milestone of milestone id in the current state, as a whole.
MilestoneRun(id) ==
    Run("release_for_milestone",
        release_for_milestone(escrow, bal[VaultAta], now, Ctx, id), escrow, bal, 0)

\* What a run adds to a token account.
Received(out, account) == out.b[account] - bal[account]

(* C14: on-time milestone payout: releasing a verified milestone of amount
   a before or without a deliver-by deadline transfers
   fee = floor(a*fee_bps/10000) to the treasury,
   insurance = floor(a*insurance_bps/10000) to the insurance treasury and
   a - fee - insurance to the seller, nothing to the buyer; for
   a = 1,000,000, fee_bps = 250, insurance_bps = 100 this is 25,000,
   10,000 and 965,000. *)
C14_OnTimeBreakdown ==
    /\ Payout([fee_bps |-> 250, insurance_bps |-> 100, late_penalty_bps |-> 0],
              1000000, FALSE)
         = [fee_cut |-> 25000, insurance_cut |-> 10000, penalty |-> 0,
            seller_amount |-> 965000]
    /\ Created =>
         \A id \in MilestoneIds :
           LET a == MilestoneAt(escrow, id).amount
               fee == ExactBps(a, escrow.fee_bps)
               insurance == ExactBps(a, escrow.insurance_bps)
               out == MilestoneRun(id)
           IN  (out.err = "Ok" /\ ~IsLate(escrow, now)) =>
                 /\ Received(out, cfg.treasury) = fee
                 /\ Received(out, cfg.insurance_treasury) = insurance
                 /\ Received(out, escrow.seller) = a - fee - insurance
                 /\ Received(out, escrow.buyer) = 0

\* The late release of the scenario: a verified 1,000,000 milestone at
\* fee_bps 250 and insurance_bps 100, past its deliver-by deadline.
LateScenario ==
    /\ Created
    /\ escrow.fee_bps = 250
    /\ escrow.insurance_bps = 100
    /\ milestones_len(escrow) = 1
    /\ MilestoneAt(escrow, 0).amount = 1000000
    /\ IsLate(escrow, now)
    /\ MilestoneRun(0).err = "Ok"

(* C15: late penalty: an escrow can be brought into a state with
   late_penalty_bps = 1000, and a release_for_milestone with deliver_by_ts
   set and now > deliver_by_ts on a 1,000,000 milestone (fee_bps 250,
   insurance_bps 100) then sends the penalty 96,500, 10% of the post-fee
   965,000, to the buyer and 868,500 to the seller. *)
C15_LatePenalty ==
    LateScenario =>
      /\ escrow.late_penalty_bps = 1000
      /\ Received(MilestoneRun(0), escrow.buyer) = 96500
      /\ Received(MilestoneRun(0), escrow.seller) = 868500

\* expire_and_refund as one instruction with the accounts ctx, on escrow e
\* and balances b.
ExpireRunOn(e, b, ctx) ==
    Run("expire_and_refund", expire_and_refund(e, b[VaultAta], now, ctx), e, b, 0)

ExpireRun(ctx) == ExpireRunOn(escrow, bal, ctx)

Expired == escrow.verify_by_ts > 0 /\ now > escrow.verify_by_ts

\* The statement of C16 for the destination accounts in ctxs.
ExpireAsClaimed(ctxs) ==
    Created =>
      \A ctx \in ctxs :
        LET out == ExpireRun(ctx)
        IN  /\ (escrow.state = Open /\ Expired /\ bal[VaultAta] >= escrow.amount) =>
                 /\ out.err = "Ok"
                 /\ Received(out, escrow.buyer) = bal[VaultAta]
                 /\ out.b[VaultAta] = 0
                 /\ out.e.state = Refunded
            /\ ~Expired => out.err = "NotExpired"
            /\ (Expired /\ escrow.state # Open) => out.err = "BadState"
            /\ out.err = "Ok" =>
                 \A again \in ctxs : ExpireRunOn(out.e, out.b, again).err # "Ok"

(* C16: expire_and_refund on an Open escrow with verify_by_ts > 0,
   now > verify_by_ts and vault balance >= amount transfers the full vault
   balance to the buyer and sets the state to Refunded; it fails with
   NotExpired when verify_by_ts is 0 or now <= verify_by_ts, with BadState
   in every other state than Open, and a second call after a successful
   one fails.  Checked for every buyer token account the caller may pass. *)
C16_ExpireAndRefund == ExpireAsClaimed(CtxInputs(escrow, cfg))

\* The same with the recorded buyer's account only.
ExpireToRecordedBuyer == ExpireAsClaimed({Ctx})

\* Every handler that issues no transfer, on the current state with every
\* input, as it returns.
SimpleReturns ==
    {set_deadlines(escrow, d[1], d[2]) : d \in DeadlineInputs}
    \cup {verify_delivery(escrow, x[1], now, x[2]) :
            x \in RemainingInputs \X {ProjectId, ProjectId + 1}}
    \cup {add_milestone(escrow, a) : a \in MilestoneAmountInputs}
    \cup {verify_milestone(escrow, x[1], now, x[2]) :
            x \in RemainingInputs \X MilestoneIdInputs}
    \cup {request_cancel(escrow, actor) : actor \in Callers}
    \cup {open_dispute(escrow)}
    \cup {update_oracles(escrow, o[1], o[2]) : o \in NewOracleInputs}

\* create_escrow on the current state with every input.
CreateReturns ==
    {create_escrow(escrow, cfg, BuyerKey, SellerKey, now, ProjectId,
                   x[1], x[2], x[3], x[4]) :
        x \in AmountInputs \X NonceInputs \X OracleListInputs \X QuorumInputs}

(* C17: failure is atomic: whenever an escrow operation returns an error
   (validation, state, timing, authorization, balance, reentrancy or a
   failed transfer leg) every field of the escrow and every token balance
   are what they were before the call; no earlier transfer leg of a
   multi-leg payout is kept when a later leg fails. *)
C17_FailureAtomic ==
    /\ \A r \in CreateReturns :
         r.err # "Ok" => Committed(r, escrow) = escrow
    /\ Created =>
         /\ \A r \in SimpleReturns :
              r.err # "Ok" => Committed(r, escrow) = escrow
         /\ \A out \in AllRuns :
              out.err # "Ok" => out.e = escrow /\ out.b = bal

\* A three-leg milestone release whose last transfer is refused after the
\* fee and insurance transfers went through, the handler's memory copy of
\* the escrow already holding the guard: the failed call leaves nothing.
C17_Witness ==
    /\ Created
    /\ \E id \in MilestoneIds :
         LET r == release_for_milestone(escrow, bal[VaultAta], now, Ctx, id)
             legs == RunLegs(bal, r.legs, 1, 3)
             out == Run("release_for_milestone", r, escrow, bal, 3)
         IN  /\ r.err = "Ok"
             /\ Len(r.legs) = 3
             /\ r.e # escrow
             /\ ~legs.ok
             /\ legs.b[cfg.treasury] > bal[cfg.treasury]
             /\ legs.b[cfg.insurance_treasury] > bal[cfg.insurance_treasury]
             /\ out.err = "TransferFailed"
             /\ out.e = escrow
             /\ out.b = bal

\* approve_cancel by `actor` as one instruction, refund to the recorded buyer.
CancelRun(actor) ==
    Run("approve_cancel", approve_cancel(escrow, bal[VaultAta], now, Ctx, actor),
        escrow, bal, 0)

\* actor is the party of the escrow that did not request the cancellation.
Counterparty(actor) ==
    \/ escrow.cancel_requested_by = escrow.seller /\ actor = escrow.buyer
    \/ escrow.cancel_requested_by = escrow.buyer /\ actor = escrow.seller

\* The statement of C18 for the callers in actors.
CancelAsClaimed(actors) ==
    Created =>
      \A actor \in actors :
        LET out == CancelRun(actor)
        IN  out.err = "Ok" =>
              /\ escrow.cancel_requested_by # DefaultKey
              /\ Counterparty(actor)
              /\ Received(out, escrow.buyer) = bal[VaultAta]
              /\ out.b[VaultAta] = 0
              /\ out.e.state = Refunded

(* C18: approve_cancel succeeds only when a cancel request is pending and
   the caller is the counterparty of the requester (the buyer if the seller
   requested, the seller if the buyer requested); a caller who is neither
   buyer nor seller never completes a cancellation.  On success the full
   vault balance goes to the buyer and the state becomes Refunded. *)
C18_ApproveCancel == CancelAsClaimed(Callers)

\* The same for the two parties of the escrow only.
CancelByParties == CancelAsClaimed({escrow.buyer, escrow.seller})

\* The three release handlers of ReleaseCommon on the current state.
ReleaseCalls ==
    {<<"release_for_milestone", id>> : id \in MilestoneIdInputs}
    \cup {<<"release_payment">>, <<"release_retention">>}

\* One of them as one instruction with the destination accounts ctx.
ReleaseRun(c, ctx) ==
    Run(c[1], PlanWith(c, escrow, cfg, bal, now, ctx), escrow, bal, 0)

\* The statement of C19 for the destination accounts in ctxs.
RoutedAsClaimed(ctxs) ==
    Created =>
      \A c \in ReleaseCalls, ctx \in ctxs :
        LET out == ReleaseRun(c, ctx)
            p == PlanWith(c, escrow, cfg, bal, now, Ctx)
        IN  out.err = "Ok" =>
              /\ out.b = ReleaseRun(c, Ctx).b
              /\ Received(out, escrow.seller) = PaidTo(p.legs, escrow.seller)
              /\ Received(out, Outsider) = 0

(* C19: payouts are routed by recorded identities, not by the caller: for
   every caller and every set of destination accounts the caller supplies,
   a successful release_for_milestone, release_payment or release_retention
   sends the seller remainder only to the recorded seller, the penalty only
   to the recorded buyer, the fee only to the config treasury and the
   insurance cut only to the insurance treasury. *)
C19_RoutedByIdentity == RoutedAsClaimed(CtxInputs(escrow, cfg))

\* The same when the caller passes the recorded parties' accounts.
RoutedWithRecordedAccounts == RoutedAsClaimed({Ctx})

\* What update_oracles, open_dispute, set_deadlines and add_milestone return
\* on the current state when `actor` signs, for every input.  BuyerOrSeller
\* asks for a signer and nothing else, and none of the four reads it.
GatedReturns(actor) ==
    {update_oracles(escrow, o[1], o[2]) : o \in NewOracleInputs}
    \cup {open_dispute(escrow)}
    \cup {set_deadlines(escrow, d[1], d[2]) : d \in DeadlineInputs}
    \cup {add_milestone(escrow, a) : a \in MilestoneAmountInputs}

ThirdParties == Callers \ {escrow.buyer, escrow.seller}

(* C20: buyer-or-seller role gate: update_oracles, open_dispute,
   set_deadlines and add_milestone succeed only when the caller is the
   escrow's recorded buyer or seller; a call by any other identity fails
   and changes nothing, so a third party never replaces the oracle set or
   the quorum threshold. *)
C20_BuyerOrSellerGate ==
    Created =>
      \A actor \in ThirdParties :
        \A r \in GatedReturns(actor) :
          /\ r.err # "Ok"
          /\ Committed(r, escrow) = escrow

\* release_payment as one instruction with the recorded parties' accounts.
PaymentRun ==
    Run("release_payment", release_payment(escrow, bal[VaultAta], now, Ctx),
        escrow, bal, 0)

\* The retention release_payment holds back: floor(amount*retention_bps/10000),
\* at most the vault balance, nothing once the retention was released.
Withheld ==
    IF escrow.retention_released THEN 0
    ELSE Min(ExactBps(escrow.amount, escrow.retention_bps), bal[VaultAta])

(* C21: release_payment is allowed only in Verified or PartiallyReleased
   (BadState otherwise); it pays out remaining = vault balance minus the
   retention floor(amount*retention_bps/10000) while the retention is not
   released (the whole vault balance once it is), fails with
   NothingToRelease when remaining is 0, and on success sets the state to
   Released leaving exactly the withheld retention in the vault. *)
C21_ReleasePayment ==
    Created =>
      LET out == PaymentRun
          allowed == escrow.state \in {Verified, PartiallyReleased}
          remaining == bal[VaultAta] - Withheld
      IN  /\ ~allowed => out.err = "BadState"
          /\ (allowed /\ remaining = 0) => out.err = "NothingToRelease"
          /\ out.err = "Ok" =>
               /\ allowed
               /\ remaining > 0
               /\ out.e.state = Released
               /\ bal[VaultAta] - out.b[VaultAta] = remaining
               /\ out.b[VaultAta] = Withheld

\* verify_delivery for project_id on the current state, for every list of
\* remaining accounts.
DeliveryReturns(project_id) ==
    {verify_delivery(escrow, remaining, now, project_id) :
        remaining \in RemainingInputs}

\* The lifecycle rule of verify_delivery for the project ids in ids.
DeliveryAsClaimed(ids) ==
    Created =>
      \A project_id \in ids :
        \A r \in DeliveryReturns(project_id) :
          /\ escrow.state \in {Verified, Released, Refunded, Dispute} =>
               r.err = "BadState"
          /\ r.err = "Ok" =>
               /\ escrow.state \in {Open, PartiallyReleased}
               /\ r.e.state = IF escrow.state = Open THEN Verified
                              ELSE PartiallyReleased
               /\ r.e.verified_ts = now

\* C22 as stated, for any project_id argument.
C22_AsStated == DeliveryAsClaimed({ProjectId, ProjectId + 1})

(* C22: verify_delivery called with the escrow's project_id is allowed only
   in Open or PartiallyReleased (BadState in Verified, Released, Refunded
   and Dispute); on success an Open escrow becomes Verified, a
   PartiallyReleased one stays PartiallyReleased, and verified_ts is set to
   the current time in both cases.  With another project_id it fails with
   ProjectMismatch in every state. *)
C22_VerifyDelivery ==
    /\ DeliveryAsClaimed({escrow.project_id})
    /\ Created =>
         \A r \in DeliveryReturns(escrow.project_id + 1) : r.err = "ProjectMismatch"

\* A partially released escrow whose delivery the quorum verifies: it stays
\* PartiallyReleased and takes the current time as verified_ts.
C22_Witness ==
    /\ Created
    /\ escrow.state = PartiallyReleased
    /\ escrow.verified_ts # now
    /\ \E r \in DeliveryReturns(escrow.project_id) :
         /\ r.err = "Ok"
         /\ r.e.state = PartiallyReleased
         /\ r.e.verified_ts = now

\* The rates an escrow or a config carries.
Rates(r) == <<r.fee_bps, r.insurance_bps, r.retention_bps>>

\* A transfer-issuing call as one instruction, the config being conf.
RunUnder(c, conf) ==
    Run(c[1], PlanOf(c, escrow, conf, bal, now), escrow, bal, 0)

(* C23: config snapshot: an escrow's fee_bps, insurance_bps and
   retention_bps equal the config's values at the moment create_escrow ran;
   a later update_fee_splits on the config changes neither those fields nor
   the amounts any later release on the existing escrow pays out. *)
C23_ConfigSnapshot ==
    /\ [][/\ (~Created /\ escrow'.state # Uninitialized) =>
                Rates(escrow') = Rates(cfg)
          /\ (Created /\ escrow'.state # Uninitialized) =>
                Rates(escrow') = Rates(escrow)
          /\ cfg' # cfg => escrow' = escrow /\ bal' = bal]_vars
    /\ [](Created =>
            \A c \in TransferCalls :
              LET out == RunUnder(c, cfg)
              IN  \A fs \in FeeSplitInputs :
                    RunUnder(c, update_fee_splits(cfg, fs[1], fs[2])) = out)

\* The config's fee rate was changed after the escrow was created, and the
\* final release pays the treasury by the escrow's own rate.
C23_Witness ==
    /\ Created
    /\ cfg.fee_bps # escrow.fee_bps
    /\ PaymentRun.err = "Ok"
    /\ Received(PaymentRun, cfg.treasury)
         = ExactBps(bal[VaultAta] - Withheld, escrow.fee_bps)
    /\ Received(PaymentRun, cfg.treasury)
         # ExactBps(bal[VaultAta] - Withheld, cfg.fee_bps)

\* The step is a successful transfer_market_authority_accept signed by the
\* pending authority.
AcceptedStep ==
    \E signer \in ConfigSigners :
        LET r == transfer_market_authority_accept(cfg, signer)
        IN  signer = cfg.pending_authority /\ r.err = "Ok" /\ cfg' = r.c

\* The step is a successful transfer_market_authority_propose signed by the
\* current authority.
ProposedStep ==
    \E new_auth \in NewAuthorityInputs :
        LET r == transfer_market_authority_propose(cfg, cfg.authority, new_auth)
        IN  r.err = "Ok" /\ cfg' = r.c

(* C24: config authority transfer is two-phase: config.authority changes
   only through transfer_market_authority_accept called by the identity
   stored in pending_authority, which only the current authority sets, via
   transfer_market_authority_propose; accept by any other identity fails
   with BadAuthorityAccept, and a successful accept resets
   pending_authority to the empty placeholder, so the same proposal is not
   accepted twice. *)
C24_TwoPhaseAuthority ==
    /\ [][/\ cfg'.authority # cfg.authority => AcceptedStep
          /\ cfg'.pending_authority # cfg.pending_authority =>
                AcceptedStep \/ ProposedStep]_vars
    /\ [](\A signer \in ConfigSigners :
            LET accepted == transfer_market_authority_accept(cfg, signer)
            IN  /\ signer # cfg.pending_authority =>
                     accepted.err = "BadAuthorityAccept"
                /\ signer # cfg.authority =>
                     \A new_auth \in NewAuthorityInputs :
                       transfer_market_authority_propose(cfg, signer, new_auth).err # "Ok"
                /\ accepted.err = "Ok" =>
                     /\ accepted.c.authority = signer
                     /\ accepted.c.pending_authority = DefaultKey
                     /\ \A again \in ConfigSigners :
                          transfer_market_authority_accept(accepted.c, again).err
                            = "BadAuthorityAccept")

\* The authority has passed to a proposed identity, which accepted; a new
\* proposal by the new authority is pending.
C24_Witness ==
    /\ cfg.authority # AuthorityKey
    /\ cfg.pending_authority \in ConfigSigners \ {cfg.authority}
    /\ transfer_market_authority_accept(cfg, cfg.pending_authority).c.authority
         = cfg.pending_authority

\* The six lifecycle states of EscrowState.
LifecycleStates == {Open, Verified, PartiallyReleased, Released, Refunded, Dispute}

(* C25: data-model bounds hold in every reachable state of a created
   escrow, after any sequence of operations including update_oracles and
   add_milestone: amount > 0, quorum_m >= 1, oracles_len <= 8,
   milestones_len <= 10, and the state is one of the six lifecycle
   states. *)
C25_DataBounds ==
    Created =>
      /\ escrow.amount > 0
      /\ escrow.quorum_m >= QUORUM_MIN
      /\ Len(escrow.oracles) <= MAX_ORACLES
      /\ milestones_len(escrow) <= MAX_MILESTONES
      /\ escrow.state \in LifecycleStates

\* A full ledger on an escrow whose oracle set and quorum were replaced:
\* one more milestone, nine oracle keys and a quorum of 0 are all refused.
C25_Witness ==
    /\ Created
    /\ milestones_len(escrow) = MAX_MILESTONES
    /\ escrow.oracles = <<"o1">>
    /\ escrow.quorum_m = 1
    /\ \A amount \in LedgerAmountInputs :
         escrow.state \in {Open, Verified} =>
           add_milestone(escrow, amount).err = "TooManyMilestones"
    /\ escrow.state \in {Open, Verified}
    /\ update_oracles(escrow, TooManyOracleKeys, 1).err = "TooManyOracles"
    /\ update_oracles(escrow, <<"o1">>, 0).err = "BadQuorum"

\* What verify_milestone does on success and with an id out of range, for
\* every id and every list of remaining accounts.
MilestoneVerification ==
    Created =>
      \A milestone_id \in MilestoneIdInputs, remaining \in RemainingInputs :
        LET r == verify_milestone(escrow, remaining, now, milestone_id)
        IN  /\ milestone_id >= milestones_len(escrow) => r.err = "BadMilestoneId"
            /\ r.err = "Ok" =>
                 /\ milestone_id < milestones_len(escrow)
                 /\ ~MilestoneAt(escrow, milestone_id).verified
                 /\ MilestoneAt(r.e, milestone_id).verified
                 /\ r.e.state = IF escrow.state = Open THEN Verified
                                ELSE escrow.state

\* An already verified milestone is rejected: with AlreadyVerified when the
\* votes reach the quorum (whatever the votes when `always`), with
\* QuorumNotMet otherwise.
VerifiedRejected(always) ==
    Created =>
      \A milestone_id \in MilestoneIds, remaining \in RemainingInputs :
        LET r == verify_milestone(escrow, remaining, now, milestone_id)
        IN  MilestoneAt(escrow, milestone_id).verified =>
              /\ r.err \in {"AlreadyVerified", "QuorumNotMet"}
              /\ (always \/ QuorumMet(escrow, remaining)) => r.err = "AlreadyVerified"

\* A verified flag never returns to false.
VerifiedForGood ==
    \A milestone_id \in MilestoneIds :
      MilestoneAt(escrow, milestone_id).verified
        => (milestone_id < milestones_len(escrow')
            /\ MilestoneAt(escrow', milestone_id).verified)

\* C26 as stated: AlreadyVerified whatever the votes.
C26_AsStated ==
    /\ [](MilestoneVerification /\ VerifiedRejected(TRUE))
    /\ [][VerifiedForGood]_vars

(* C26: verify_milestone rejects an id >= milestones_len with
   BadMilestoneId and an already verified milestone with AlreadyVerified
   when the votes reach the quorum, with QuorumNotMet when they do not; on
   success it sets the milestone's verified flag and promotes an Open
   escrow to Verified, leaving the lifecycle state unchanged in every other
   state; a milestone's verified flag never returns to false. *)
C26_VerifyMilestone ==
    /\ [](MilestoneVerification /\ VerifiedRejected(FALSE))
    /\ [][VerifiedForGood]_vars

\* An escrow past Open with one verified and one unverified milestone: with
\* the quorum's votes the first is refused, the second verified with the
\* state kept, an id beyond the ledger refused.
C26_Witness ==
    /\ Created
    /\ escrow.state \notin {Open, Verified}
    /\ \E done, todo \in MilestoneIds, remaining \in RemainingInputs :
         LET r == verify_milestone(escrow, remaining, now, todo)
         IN  /\ MilestoneAt(escrow, done).verified
             /\ verify_milestone(escrow, remaining, now, done).err = "AlreadyVerified"
             /\ verify_milestone(escrow, <<>>, now, done).err = "QuorumNotMet"
             /\ r.err = "Ok"
             /\ MilestoneAt(r.e, todo).verified
             /\ r.e.state = escrow.state
             /\ verify_milestone(escrow, remaining, now, milestones_len(escrow)).err
                  = "BadMilestoneId"

\* The statement of C27; a full ledger answers TooManyMilestones in Open and
\* Verified, and in every state when `always`.
LedgerAsClaimed(always) ==
    Created =>
      \A amount \in LedgerAmountInputs :
        LET r == add_milestone(escrow, amount)
            accepted == escrow.state \in {Open, Verified}
            full == milestones_len(escrow) = MAX_MILESTONES
        IN  /\ escrow.state \in {PartiallyReleased, Released, Refunded, Dispute} =>
                 r.err = "BadState"
            /\ (full /\ (always \/ accepted)) => r.err = "TooManyMilestones"
            /\ r.err = "Ok" =>
                 /\ accepted
                 /\ ~full
                 /\ r.e = [escrow EXCEPT !.milestones =
                             Append(escrow.milestones,
                                    [id |-> milestones_len(escrow), amount |-> amount,
                                     verified |-> FALSE, released |-> FALSE])]

\* C27 as stated: TooManyMilestones whenever 10 milestones exist.
C27_AsStated == LedgerAsClaimed(TRUE)

(* C27: add_milestone is accepted only in Open or Verified (BadState in
   PartiallyReleased, Released, Refunded, Dispute) and, in Open or
   Verified, fails with TooManyMilestones when 10 milestones already exist;
   a successful call appends one milestone with id = previous
   milestones_len, verified = false and released = false, and leaves all
   existing milestones unchanged. *)
C27_AddMilestone == LedgerAsClaimed(FALSE)

\* A ledger filled by ten successful calls, ids 0 to 9, in a state that
\* accepts milestones: the eleventh is refused.
C27_Witness ==
    /\ Created
    /\ escrow.state \in {Open, Verified}
    /\ milestones_len(escrow) = MAX_MILESTONES
    /\ \A milestone_id \in MilestoneIds :
         MilestoneAt(escrow, milestone_id).id = milestone_id
    /\ ~MilestoneAt(escrow, MAX_MILESTONES - 1).verified
    /\ \A amount \in LedgerAmountInputs :
         add_milestone(escrow, amount).err = "TooManyMilestones"

(* C28: release_retention never changes the lifecycle state and never
   applies a late penalty: on success the only escrow field that changes
   is retention_released (false to true), the buyer receives nothing even
   when now > deliver_by_ts, and fee + insurance + seller amount equals
   floor(amount*retention_bps/10000). *)
C28_RetentionFrame ==
    Created =>
      LET out == RetentionRun
      IN  out.err = "Ok" =>
            /\ ~escrow.retention_released
            /\ out.e = [escrow EXCEPT !.retention_released = TRUE]
            /\ Received(out, escrow.buyer) = 0
            /\ Received(out, cfg.treasury) + Received(out, cfg.insurance_treasury)
                 + Received(out, escrow.seller)
                 = ExactBps(escrow.amount, escrow.retention_bps)
            /\ bal[VaultAta] - out.b[VaultAta]
                 = ExactBps(escrow.amount, escrow.retention_bps)

\* The calls of the four guarded handlers.
GuardedCalls == {c \in TransferCalls : c[1] \in {"release_for_milestone",
                   "release_payment", "release_retention", "resolve_dispute"}}

(* C29: every precondition of an operation is checked before any mutation
   or transfer: in release_for_milestone, release_payment,
   release_retention and resolve_dispute no escrow field (the in_transfer
   guard included) is written and no transfer is issued before the last
   precondition check (vault balance sufficient / non-zero) has passed. *)
C29_ChecksBeforeWrites ==
    Created =>
      \A c \in GuardedCalls :
        LET r == PlanOf(c, escrow, cfg, bal, now)
        IN  r.err # "Ok" => r.e = escrow /\ r.legs = <<>>

\* The same for the two handlers that take the guard after their last check.
ChecksBeforeWritesInPaymentAndRetention ==
    Created =>
      \A c \in {c \in GuardedCalls : c[1] \in {"release_payment", "release_retention"}} :
        LET r == PlanOf(c, escrow, cfg, bal, now)
        IN  r.err # "Ok" => r.e = escrow /\ r.legs = <<>>

\* The recipients in the order the claim gives them.
ReleaseOrder == <<escrow.buyer, cfg.treasury, cfg.insurance_treasury, escrow.seller>>
DisputeOrder == <<escrow.buyer, escrow.seller, cfg.treasury, cfg.insurance_treasury>>

Position(account, order) == CHOOSE k \in 1..Len(order) : order[k] = account

\* The transfers are non-zero, go to recipients of `order` and follow it.
InOrder(legs, order) ==
    /\ \A i \in 1..Len(legs) :
         /\ legs[i].amount > 0
         /\ \E k \in 1..Len(order) : order[k] = legs[i].to
    /\ \A i, j \in 1..Len(legs) :
         i < j => Position(legs[i].to, order) < Position(legs[j].to, order)

RECURSIVE LegsSum(_)
LegsSum(legs) == IF legs = <<>> THEN 0 ELSE Head(legs).amount + LegsSum(Tail(legs))

\* The k-th transfer of `legs` being refused, the ones before it and no
\* other have moved funds when the run ends.
StopsAt(legs, k) ==
    LET run == RunLegs(bal, legs, 1, k)
    IN  /\ ~run.ok
        /\ \A account \in TokenAccounts \ {VaultAta} :
             run.b[account] - bal[account] = PaidTo(SubSeq(legs, 1, k - 1), account)

\* The payout of `gross` on an escrow like the current one with a late
\* penalty rate of 10%, delivered late.
LatePayout(gross) == Payout([escrow EXCEPT !.late_penalty_bps = 1000], gross, TRUE)

(* C30: transfer order is deterministic: release_for_milestone and
   release_payment issue their non-zero transfers in the order penalty to
   buyer, fee to treasury, insurance to insurance treasury, remainder to
   seller; resolve_dispute in the order buyer, seller net, fee, insurance;
   zero-amount legs are skipped and a failing leg prevents all later
   legs. *)
C30_TransferOrder ==
    Created =>
      /\ \A c \in TransferCalls :
           LET r == PlanOf(c, escrow, cfg, bal, now)
               order == IF c[1] = "resolve_dispute" THEN DisputeOrder ELSE ReleaseOrder
           IN  (/\ c[1] \in {"release_for_milestone", "release_payment", "resolve_dispute"}
                /\ r.err = "Ok") =>
                 /\ InOrder(r.legs, order)
                 /\ \A k \in 1..Len(r.legs) :
                      /\ Run(c[1], r, escrow, bal, k).err = "TransferFailed"
                      /\ LegsSum(r.legs) <= bal[VaultAta] => StopsAt(r.legs, k)
      /\ LET p == LatePayout(bal[VaultAta])
             legs == PayoutLegs(p, Ctx)
         IN  /\ InOrder(legs, ReleaseOrder)
             /\ p.penalty > 0 => legs[1] = Leg(escrow.buyer, p.penalty)

\* A dispute split in four transfers, buyer, seller, treasury, insurance:
\* when the third is refused the buyer's and the seller's have gone
\* through, and neither the fee nor the insurance transfer.
C30_Witness ==
    /\ Created
    /\ escrow.dispute_open
    /\ LET r == resolve_dispute(escrow, cfg, bal[VaultAta], now, Ctx, ArbiterKey, "Split", 5000)
           run == RunLegs(bal, r.legs, 1, 3)
       IN  /\ r.err = "Ok"
           /\ Len(r.legs) = 4
           /\ <<r.legs[1].to, r.legs[2].to, r.legs[3].to, r.legs[4].to>> = DisputeOrder
           /\ ~run.ok
           /\ run.b[escrow.buyer] > bal[escrow.buyer]
           /\ run.b[escrow.seller] > bal[escrow.seller]
           /\ run.b[cfg.treasury] = bal[cfg.treasury]
           /\ run.b[cfg.insurance_treasury] = bal[cfg.insurance_treasury]
    /\ LatePayout(bal[VaultAta]).penalty > 0

\* Arguments of create_escrow: amount, nonce, oracle keys, quorum.
CreateArgs ==
    {0, 1, BuyerFunds} \X {0, 1, 2} \X OracleListInputs \X {0, 1, 2}

\* create_escrow with the arguments x on the freshly initialized account.
FirstCreate(x) ==
    create_escrow(escrow, cfg, BuyerKey, SellerKey, now, ProjectId, x[1], x[2], x[3], x[4])

\* The escrow e is as create_escrow leaves it.
AsCreated(e) ==
    /\ e.state = Open
    /\ ~e.in_transfer
    /\ ~e.retention_released
    /\ ~e.dispute_open
    /\ e.milestones = <<>>
    /\ e.warranty_end_ts = e.created_ts + cfg.warranty_days * 86400

\* The statement of C31 for the nonces in `accepted`; any other nonce is
\* refused with BadNonce once the other preconditions hold.
CreateAsClaimed(accepted) ==
    ~Created =>
      \A x \in CreateArgs :
        LET r == FirstCreate(x)
            valid == x[1] > 0 /\ x[4] >= 1 /\ Len(x[3]) <= 8
        IN  /\ (valid /\ x[2] \in accepted) =>
                 r.err = "Ok" /\ r.e.created_ts = now /\ AsCreated(r.e)
            /\ (valid /\ x[2] \notin accepted) => r.err = "BadNonce"
            /\ ~(x[1] > 0) => r.err = "ZeroAmount"
            /\ (x[1] > 0 /\ ~(x[4] >= 1)) => r.err = "BadQuorum"
            /\ (x[1] > 0 /\ x[4] >= 1 /\ ~(Len(x[3]) <= 8)) =>
                 r.err = "TooManyOracles"

\* The step that creates the escrow leaves it as claimed.
CreatedAsClaimed ==
    (~Created /\ escrow'.state # Uninitialized) =>
      AsCreated(escrow') /\ escrow'.created_ts = now

\* C31 as stated: every nonce is accepted on first creation.
C31_AsStated == [](CreateAsClaimed({0, 1, 2})) /\ [][CreatedAsClaimed]_vars

(* C31: create_escrow on a freshly initialized escrow succeeds for every
   nonce > 0 whenever amount > 0, quorum >= 1 and at most 8 oracles are
   given, leaving the escrow Open with in_transfer = false,
   retention_released = false, dispute_open = false, zero milestones and
   warranty_end_ts = created_ts + warranty_days*86400; with nonce 0 it
   fails with BadNonce; it fails with ZeroAmount, BadQuorum or
   TooManyOracles, checked in this order, when the respective precondition
   is violated. *)
C31_CreateEscrow == [](CreateAsClaimed({1, 2})) /\ [][CreatedAsClaimed]_vars

\* The escrow just created with nonce 1.
C31_Witness ==
    /\ Created
    /\ AsCreated(escrow)
    /\ escrow.created_ts = now
    /\ escrow.last_ix_nonce = 1
    /\ escrow.cancel_requested_by = DefaultKey
    /\ escrow.verify_by_ts = 0
    /\ bal[VaultAta] = escrow.amount

(***************************************************************************)
(* Dispute flag and lifecycle state (C32)                                  *)
(***************************************************************************)

(* C32: in every reachable state dispute_open is true if and only if the
   lifecycle state is Dispute; no operation moves the state out of Dispute
   while leaving dispute_open set. *)
C32_DisputeFlagAgrees == escrow.dispute_open <=> escrow.state = Dispute

(***************************************************************************)
(* Funds under an open dispute (C33)                                       *)
(***************************************************************************)

\* Every release, refund and cancellation on the current state, each as one
\* instruction with the recorded parties' accounts.
NonArbiterRuns ==
    {MilestoneRun(id) : id \in MilestoneIdInputs}
    \cup {PaymentRun, RetentionRun, ExpireRun(Ctx)}
    \cup {CancelRun(actor) : actor \in Callers}

(* C33: while a dispute is open the vault balance changes only through
   resolve_dispute: release_for_milestone, release_payment,
   release_retention, expire_and_refund and approve_cancel all fail and
   move no funds until the arbiter has resolved the dispute. *)
C33_FrozenUnderDispute ==
    escrow.dispute_open =>
      \A out \in NonArbiterRuns : out.err # "Ok" /\ out.b = bal

(***************************************************************************)
(* Payouts need a confirmation (C34)                                       *)
(***************************************************************************)

\* The step moves funds to the seller, the treasury or the insurance pool.
PaysSellerSide ==
    \/ bal'[escrow.seller] > bal[escrow.seller]
    \/ bal'[cfg.treasury] > bal[cfg.treasury]
    \/ bal'[cfg.insurance_treasury] > bal[cfg.insurance_treasury]

\* What may stand behind a payout: verify_delivery has passed its quorum
\* check (the only writer of verified_ts), the step releases a milestone
\* that verify_milestone had marked, or the step is the arbiter's
\* resolution (the only step that clears dispute_open).
ConfirmedPayout ==
    \/ escrow.verified_ts # 0
    \/ \E i \in 1..Len(escrow.milestones) :
          /\ escrow.milestones[i].verified
          /\ ~escrow.milestones[i].released
          /\ i <= Len(escrow'.milestones)
          /\ escrow'.milestones[i].released
    \/ escrow.dispute_open /\ ~escrow'.dispute_open

\* The escrow has been Open ever since creation (no handler returns to
\* Open) and nothing in it has been verified.
OpenSinceCreation ==
    /\ escrow.state = Open
    /\ escrow.verified_ts = 0
    /\ \A i \in 1..Len(escrow.milestones) : ~escrow.milestones[i].verified

(* C34: no seller payout without confirmation: no step transfers funds to
   the seller, or as fee or insurance, unless an oracle quorum has verified
   the delivery or the milestone being paid, or the arbiter resolves a
   dispute; in particular no step pays the seller side while the escrow
   has been Open ever since creation. *)
C34_NoPayoutUnconfirmed ==
    [][(Created /\ PaysSellerSide) => ConfirmedPayout /\ ~OpenSinceCreation]_vars

(***************************************************************************)
(* The retention reserve (C35)                                             *)
(***************************************************************************)

\* The retention is still owed: it was not released, and the escrow was
\* neither refunded nor cancelled nor resolved by the arbiter (each of
\* which ends in Released or Refunded) and is under no dispute.
RetentionOwed ==
    /\ Created
    /\ ~escrow.retention_released
    /\ ~escrow.dispute_open
    /\ escrow.state \in {Open, Verified, PartiallyReleased}

(* C35: retention stays reserved: as long as retention_released is false
   and the escrow has not been refunded, cancelled or dispute-resolved, the
   vault balance is at least floor(amount*retention_bps/10000) after any
   sequence of add_milestone, verify_milestone, release_for_milestone and
   release_payment, so that release_retention is never blocked by
   VaultBalanceLow once the warranty has ended. *)
C35_RetentionReserved ==
    RetentionOwed =>
      /\ bal[VaultAta] >= calc_retention(escrow.amount, escrow.retention_bps)
      /\ RetentionCall.err # "VaultBalanceLow"

====
